---- MODULE Spec2Model ----
(***************************************************************************)
(* fryler: the heartbeat scheduler, the task / memory store, the marker    *)
(* parser and the outbox, modelled from the TypeScript sources.            *)
(*                                                                         *)
(* A text is a sequence of tokens.  A nullable value is a sequence of      *)
(* length 0 (SQL NULL / JS null) or 1.                                     *)
(***************************************************************************)
EXTENDS Integers, Sequences, FiniteSets, TLC

\* ------------------------------------------------------------------ bounds

MaxTasks == 2

MaxTime == 1

MaxInFlight == 2

NumSuffixes == 2

MaxFiles == 2

MaxDrains == 2

MaxParts == 4

MaxCount == 2

MaxLines == 3

MaxClock == 150

MaxNotes == 3

MaxReply == 2

MaxEvents == 2

MaxSignals == 2

MaxAppends == 3

\* setTimeout(..., 50) of the watch callback
SettleDelay == 50

\* ------------------------------------------------------------- nullables

Null == <<>>

Some(x) == <<x>>

IsNull(v) == v = <<>>

Val(v) == v[1]

Range(s) == {s[i] : i \in DOMAIN s}

VARIABLES
  now,          \* the clock: datetime('now'), Date.now()
  tasks,        \* tasks table, tasks[id]
  memories,     \* memories table, in insertion order
  narrative,    \* MEMORY.md, one element per appended entry
  files,        \* outbox directory, by file name
  intervalId,   \* heartbeat: the interval timer, Null when it is not armed
  busy,         \* heartbeat: tick in flight
  inflight,     \* heartbeatTick calls that passed the guard and have not returned
  hist,         \* per task: what its execution did (history)
  returned,     \* the call that has just returned, <<>> when it is not one of
                \* <<"heartbeatTick", "skipped">>, <<"cancelTask", id, changed>>
  watcher,      \* outbox: the directory is being watched
  settleTimer,  \* outbox: the settle timeout is armed
  events,       \* outbox: change notifications not yet delivered, by extension
  drains,       \* outbox: processPendingActions calls that have not returned
  dispatched,   \* outbox: per file, how often the dispatcher got it (history)
  parseIn,      \* parser: the text parseClaudeResponse is called with
  parseOut,     \* parser: what the call returned, Null before it
  parseAgain,   \* parser: what a call with the cleanText of parseOut returned
  sessions,     \* sessions table, in insertion order
  repl,         \* the running REPL's sessionId, hasExchanged, messageCount, autoResume; Null without one
  turn,         \* the session call that has just ended: command, response session id, threw; <<>> otherwise
  stdout,       \* streaming: what the subprocess wrote to its standard output and the reader has not read
  exit,         \* streaming: exit code and standard-error text of the subprocess
  emitted,      \* streaming: everything the subprocess wrote to its standard output (history)
  buffer,       \* streaming: askStreaming's buffer
  yielded,      \* streaming: the events askStreaming has yielded, in order
  streamPc,     \* streaming: where askStreaming is: idle, reading, exiting, returned, threw
  raised,       \* streaming: the error askStreaming threw, Null if none
  clock,        \* settle delay: the time of the event loop, in milliseconds
  deadline,     \* settle delay: when the armed settle timeout fires, Null if none is armed
  notes,        \* settle delay: the calls of the watch callback, each with its time and file name (history)
  started,      \* settle delay: the times at which the settle timeout started a drain (history)
  shown,        \* display: the text written to the user's terminal for the response
  lastTextLength, \* display: the REPL's lastTextLength
  assistantSeen, \* display: the number of assistant events of the turn
  displayPc,    \* display: idle, streaming (the REPL reads events), done
  intervals,    \* runtime: the handles of the intervals that setInterval made and clearInterval has not cleared
  pidFile,      \* daemon: the content of ~/.fryler/fryler.pid, Null when the file is absent
  alive,        \* daemon: the other processes that are running
  acquired,     \* daemon: what acquirePid returned to startDaemon, Null before the call
  daemonPc,     \* daemon: off, config, init, running, stopping, exiting, exited
  shuttingDown, \* daemon: the flag of registerSignalHandlers
  daemonRunning, \* daemon: the flag of the daemon module
  dbOpen,       \* daemon: the store is open
  steps,        \* daemon: what the shutdown of this process has done, in order (history)
  signals,      \* daemon: the signals this process has received, in order (history)
  appending,    \* narrative: per process, the appendMemory call between its read and its write (what it read, what it appends), Null if none
  appendCalls,  \* narrative: the number of appendMemory calls that have written (history)
  newPending,   \* REPL: /new was the last input line (history)
  sent,         \* REPL: the session flags of the last prompt sent to the AI client and whether it was the first after /new (history), Null if none
  errored,      \* ids of the tasks whose AI response carried is_error = true
  acqPc,        \* per starting process: where it is in acquirePid
  acqSeen,      \* per starting process: the existingPid it read
  acqResult     \* per starting process: what its acquirePid returned

outboxVars == <<watcher, settleTimer, events, drains, dispatched>>

storeVars == <<tasks, memories, narrative, intervalId, busy, inflight, hist, returned>>

parserVars == <<parseIn, parseOut, parseAgain>>

sessionVars == <<sessions, repl, turn>>

streamVars == <<stdout, exit, emitted, buffer, yielded, streamPc, raised>>

timedVars == <<clock, deadline, notes, started>>

displayVars == <<shown, lastTextLength, assistantSeen, displayPc>>

runtimeVars == <<intervals>>

daemonVars == <<pidFile, alive, acquired, daemonPc, shuttingDown, daemonRunning, dbOpen, steps, signals>>

appendVars == <<appending, appendCalls>>

replAskVars == <<newPending, sent>>

errorVars == <<errored>>

acquireVars == <<acqPc, acqSeen, acqResult>>

vars == <<now, tasks, memories, narrative, files, intervalId, busy, inflight, hist, returned,
          watcher, settleTimer, events, drains, dispatched, parseIn, parseOut, parseAgain,
          sessions, repl, turn,
          stdout, exit, emitted, buffer, yielded, streamPc, raised,
          clock, deadline, notes, started,
          shown, lastTextLength, assistantSeen, displayPc,
          intervals,
          pidFile, alive, acquired, daemonPc, shuttingDown, daemonRunning, dbOpen, steps, signals,
          appending, appendCalls,
          newPending, sent,
          errored,
          acqPc, acqSeen, acqResult>>

\* ------------------------------------------------------------ marker text

\* \s of the marker pattern
WS == {"sp", "nl"}

\* "key": value members of a marker's JSON object, one token each
Members ==
  [ tTitle    |-> [k |-> "title",        t |-> "string", s |-> "Sub"],
    tBlank    |-> [k |-> "title",        t |-> "string", s |-> ""],
    tSched    |-> [k |-> "scheduled_at", t |-> "string", s |-> "T2"],
    tPrio     |-> [k |-> "priority",     t |-> "number", s |-> "2"],
    tPrioBig  |-> [k |-> "priority",     t |-> "number", s |-> "9"],
    tPrioHalf |-> [k |-> "priority",     t |-> "number", s |-> "2.5"],
    tPrioZero |-> [k |-> "priority",     t |-> "number", s |-> "0"],
    tPrioStr  |-> [k |-> "priority",     t |-> "string", s |-> "2"],
    tCategory |-> [k |-> "category",     t |-> "string", s |-> "fact"],
    tContent  |-> [k |-> "content",      t |-> "string", s |-> "sunny"],
    tText     |-> [k |-> "text",         t |-> "string", s |-> "hello"],
    tVoice    |-> [k |-> "voice",        t |-> "string", s |-> "Alex"] ]

MemberTokens == DOMAIN Members

\* \s* : the first index at or after i that holds no blank
RECURSIVE SkipWs(_, _)
SkipWs(text, i) ==
  IF i <= Len(text) /\ text[i] \in WS THEN SkipWs(text, i + 1) ELSE i

\* the lazy .*? of the pattern: the first "}" at or after m that is followed by
\* optional blanks and "-->"; the index of that "}", 0 if there is none
RECURSIVE LazyClose(_, _)
LazyClose(text, m) ==
  IF m > Len(text) THEN 0
  ELSE IF text[m] = "}" /\ SkipWs(text, m + 1) <= Len(text)
                         /\ text[SkipWs(text, m + 1)] = "-->"
       THEN m
       ELSE LazyClose(text, m + 1)

\* a match of the pattern starting exactly at i: [from, open, close, to] or Null
MatchAt(text, i, kw) ==
  IF i > Len(text) \/ text[i] # "<!--" THEN Null
  ELSE LET j == SkipWs(text, i + 1) IN
       IF j > Len(text) \/ text[j] # kw THEN Null
       ELSE LET k == SkipWs(text, j + 1) IN
            IF k > Len(text) \/ text[k] # "{" THEN Null
            ELSE LET m == LazyClose(text, k + 1) IN
                 IF m = 0 THEN Null
                 ELSE Some([from |-> i, open |-> k, close |-> m,
                            to |-> SkipWs(text, m + 1)])

RECURSIVE ExecFrom(_, _, _)
ExecFrom(text, i, kw) ==
  IF i > Len(text) THEN <<>>
  ELSE LET m == MatchAt(text, i, kw) IN
       IF IsNull(m) THEN ExecFrom(text, i + 1, kw)
       ELSE <<[json      |-> SubSeq(text, Val(m).open, Val(m).close),
               fullMatch |-> SubSeq(text, Val(m).from, Val(m).to)]>>
            \o ExecFrom(text, Val(m).to + 1, kw)

extractMarkers(text, markerType) == ExecFrom(text, 1, markerType)

\* JSON.parse of a marker's brace block: the member tokens of the object, or
\* Null when it throws (anything but members and blanks between the braces)
JSONparse(json) ==
  LET inner == SubSeq(json, 2, Len(json) - 1) IN
  IF \A i \in DOMAIN inner : inner[i] \in MemberTokens \cup WS
  THEN Some(inner)
  ELSE Null

\* obj.<key>: the last member with that key, [t |-> "undefined"] if none
RECURSIVE Field(_, _)
Field(obj, key) ==
  IF obj = <<>> THEN [k |-> key, t |-> "undefined", s |-> ""]
  ELSE LET last == obj[Len(obj)] IN
       IF last \in MemberTokens /\ Members[last].k = key
       THEN Members[last]
       ELSE Field(SubSeq(obj, 1, Len(obj) - 1), key)

\* s.trim() === ""
Blank(s) == s \in {"", " "}

\* the numerals a marker can carry, in halves
Halves ==
  [n \in {"2", "9", "2.5", "0"} |->
     CASE n = "2" -> 4 [] n = "9" -> 18 [] n = "0" -> 0 [] OTHER -> 5]

validateTask(obj) ==
  LET title == Field(obj, "title")
      prio  == Field(obj, "priority")
      sched == Field(obj, "scheduled_at")
  IN IF title.t # "string" \/ Blank(title.s) THEN Null
     ELSE Some([title        |-> title.s,
                priority     |-> IF prio.t = "number" /\ Halves[prio.s] >= 2
                                                     /\ Halves[prio.s] <= 10
                                 THEN prio.s ELSE "3",
                scheduled_at |-> IF sched.t = "string" THEN Some(sched.s) ELSE Null])

validateMemory(obj) ==
  LET category == Field(obj, "category")
      content  == Field(obj, "content")
  IN IF category.t # "string" \/ Blank(category.s) THEN Null
     ELSE IF content.t # "string" \/ Blank(content.s) THEN Null
     ELSE Some([category |-> category.s, content |-> content.s])

validateSay(obj) ==
  LET text  == Field(obj, "text")
      voice == Field(obj, "voice")
  IN IF text.t # "string" \/ Blank(text.s) THEN Null
     ELSE Some([text  |-> text.s,
                voice |-> IF voice.t = "string" /\ ~Blank(voice.s)
                          THEN Some(voice.s) ELSE Null])

\* the directives of one kind, in marker order; a marker whose JSON does not
\* parse or does not validate contributes nothing
RECURSIVE Collect(_, _)
Collect(markers, kind) ==
  IF markers = <<>> THEN <<>>
  ELSE LET parsed == JSONparse(markers[1].json)
           valid  == IF IsNull(parsed) THEN Null
                     ELSE CASE kind = "TASK"   -> validateTask(Val(parsed))
                            [] kind = "MEMORY" -> validateMemory(Val(parsed))
                            [] OTHER           -> validateSay(Val(parsed))
       IN valid \o Collect(Tail(markers), kind)

\* String.prototype.replace(pattern: string, ""): the first occurrence goes
RECURSIVE IndexOf(_, _, _)
IndexOf(text, pat, i) ==
  IF i + Len(pat) - 1 > Len(text) THEN 0
  ELSE IF SubSeq(text, i, i + Len(pat) - 1) = pat THEN i
  ELSE IndexOf(text, pat, i + 1)

Replace(text, pat) ==
  LET i == IndexOf(text, pat, 1) IN
  IF i = 0 THEN text
  ELSE SubSeq(text, 1, i - 1) \o SubSeq(text, i + Len(pat), Len(text))

RECURSIVE Strip(_, _)
Strip(text, markers) ==
  IF markers = <<>> THEN text
  ELSE Strip(Replace(text, markers[1].fullMatch), Tail(markers))

\* replace(/\n{3,}/g, "\n\n")
RECURSIVE Collapse(_, _)
Collapse(text, run) ==
  IF text = <<>> THEN <<>>
  ELSE IF text[1] = "nl"
       THEN (IF run < 2 THEN <<"nl">> ELSE <<>>) \o Collapse(Tail(text), run + 1)
       ELSE <<text[1]>> \o Collapse(Tail(text), 0)

RECURSIVE TrimStart(_)
TrimStart(text) ==
  IF text # <<>> /\ text[1] \in WS THEN TrimStart(Tail(text)) ELSE text

RECURSIVE TrimEnd(_)
TrimEnd(text) ==
  IF text # <<>> /\ text[Len(text)] \in WS
  THEN TrimEnd(SubSeq(text, 1, Len(text) - 1)) ELSE text

\* a trim of the end only
TrimEndOnly(text) == TrimEnd(text)

\* String.prototype.trim()
Trim(text) == TrimEnd(TrimStart(text))

parseClaudeResponse(rawText) ==
  LET taskMarkers   == extractMarkers(rawText, "TASK:")
      memoryMarkers == extractMarkers(rawText, "MEMORY:")
      sayMarkers    == extractMarkers(rawText, "SAY:")
      stripped      == Strip(Strip(Strip(rawText, taskMarkers), memoryMarkers),
                             sayMarkers)
  IN [cleanText |-> Trim(Collapse(stripped, 0)),
      tasks     |-> Collect(taskMarkers, "TASK"),
      memories  |-> Collect(memoryMarkers, "MEMORY"),
      says      |-> Collect(sayMarkers, "SAY")]

\* ------------------------------------------------------------- task store

\* scheduled_at strings: four timestamps and one string that is none
SchedStrings == {"T0", "T1", "T2", "T3", "soon"}

\* SQLite datetime(x): the instant, NULL for a string that is no timestamp
Datetime(str) ==
  CASE str = "T0" -> Some(0)
    [] str = "T1" -> Some(1)
    [] str = "T2" -> Some(2)
    [] str = "T3" -> Some(3)
    [] OTHER      -> Null

\* INSERT INTO tasks: the new row; status, completed_at, result take defaults
createTask(input) ==
  [title        |-> input.title,
   status       |-> "pending",
   priority     |-> input.priority,
   scheduled_at |-> input.scheduled_at,
   completed_at |-> Null,
   result       |-> Null]

\* what datetime('now') writes into completed_at: of the value stored the
\* model keeps that it is a timestamp of the store's clock, not which one
Stamp == Some("datetime('now')")

\* the UPDATE without its WHERE clause: every row is written
UpdateEveryRow(id, status, result) ==
  [i \in DOMAIN tasks |->
     [tasks[i] EXCEPT
        !.status = status,
        !.result = IF IsNull(result) THEN @ ELSE result,
        !.completed_at = IF status \in {"completed", "failed"}
                         THEN Stamp ELSE @]]

\* UPDATE tasks SET status, result = COALESCE($result, result),
\*   completed_at = (datetime('now') | completed_at) WHERE id = $id
updateTaskStatus(id, status, result) ==
  [i \in DOMAIN tasks |->
     IF i # id THEN tasks[i]
     ELSE [tasks[i] EXCEPT
             !.status = status,
             !.result = IF IsNull(result) THEN @ ELSE result,
             !.completed_at = IF status \in {"completed", "failed"}
                              THEN Stamp ELSE @]]

\* a due test in which only a later timestamp holds a task back
DueUnlessLater(row) ==
  /\ row.status = "pending"
  /\ \/ IsNull(row.scheduled_at)
     \/ IsNull(Datetime(Val(row.scheduled_at)))
     \/ Val(Datetime(Val(row.scheduled_at))) <= now

\* WHERE status = 'pending'
\*   AND (scheduled_at IS NULL OR datetime(scheduled_at) <= datetime('now'))
\* a comparison with NULL is not true
DueRow(row) ==
  /\ row.status = "pending"
  /\ \/ IsNull(row.scheduled_at)
     \/ /\ ~IsNull(Datetime(Val(row.scheduled_at)))
        /\ Val(Datetime(Val(row.scheduled_at))) <= now

RECURSIVE DueFrom(_)
DueFrom(i) ==
  IF i > Len(tasks) THEN <<>>
  ELSE (IF DueRow(tasks[i]) THEN <<i>> ELSE <<>>) \o DueFrom(i + 1)

\* the ids of the rows of the due query; the query has no ORDER BY and the
\* table no index on status, so SQLite scans it in rowid order
getDueTasks == DueFrom(1)

\* a WHERE clause without the status test
MatchesAnyStatus(id) == id \in DOMAIN tasks

\* UPDATE tasks SET status = 'failed', completed_at = now
\*   WHERE id = $id AND status = 'pending'
CancelMatches(id) == id \in DOMAIN tasks /\ tasks[id].status = "pending"

cancelTask(id) ==
  [i \in DOMAIN tasks |->
     IF i = id /\ CancelMatches(id)
     THEN [tasks[i] EXCEPT !.status = "failed", !.completed_at = Stamp]
     ELSE tasks[i]]

\* ----------------------------------------------------- memory and outbox

\* `task-${task.id}`
TaskSource(id) == <<"task-", id>>

\* INSERT INTO memories
createMemory(category, content, source) ==
  Append(memories, [category |-> category, content |-> content, source |-> source])

\* MEMORY.md gets "\n### <timestamp>\n<entry>" appended: one element per
\* entry, without the heading's timestamp; src is history
appendMemory(entry, src) ==
  Append(narrative, [entry |-> entry, src |-> src])

\* `${Date.now()}-${Math.random().toString(36).slice(2, 8)}`
FileNames == (0..MaxTime) \X (1..NumSuffixes)

\* seq is history: the number of the writeAction call that made the file
NoFile ==
  [st |-> "none", good |-> TRUE, text |-> "", voice |-> Null, src |-> 0, seq |-> 0]

FreshNames == {n \in FileNames : n[1] = now /\ files[n].st = "none"}

\* a writeAction that writes the file under its final name
WriteInPlace(name, action, src) ==
  [files EXCEPT ![name] = [st |-> "json", good |-> FALSE, text |-> action.text,
                           voice |-> action.voice, src |-> src, seq |-> 0]]

\* writeAction: Bun.write(<name>.tmp, JSON.stringify(action)) has begun; until
\* its promise resolves the file holds a part of the content (good is FALSE)
WriteTmp(name, action, src) ==
  [files EXCEPT ![name] = [st |-> "tmp", good |-> FALSE, text |-> action.text,
                           voice |-> action.voice, src |-> src, seq |-> 0]]

\* the promise of Bun.write resolves: the content is complete
Written(fs, name) == [fs EXCEPT ![name].good = TRUE]

\* renameSync(tmpPath, finalPath)
Rename(fs, name) == [fs EXCEPT ![name].st = "json"]

\* fs.watch: the changes of the directory reach the callback later, in order,
\* each with the extension of the file name it is about
Notify(exts) == IF watcher THEN events \o exts ELSE events

\* writeSayAction: voice is set only when truthy
SayAction(text, voice) == [text |-> text, voice |-> voice]

\* ------------------------------------------------------------- AI client

RPlain == <<"w", "sp", "w">>

RMemory ==
  <<"w", "nl", "<!--", "sp", "MEMORY:", "sp", "{", "tCategory", "tContent", "}",
    "sp", "-->">>

RMixed ==
  <<"<!--", "TASK:", "{", "tTitle", "}", "-->", "nl", "nl", "nl", "w",
    "<!--", "MEMORY:", "{", "tCategory", "}", "-->",
    "<!--", "SAY:", "{", "tText", "tVoice", "}", "-->", "nl">>

\* result texts the claude subprocess may answer a task with
Responses == {RPlain, RMemory, RMixed}

\* buildArgs: the session flags of the claude command line
buildArgs(options) ==
  (IF options.continueSession THEN <<"--continue">>
   ELSE IF ~IsNull(options.sessionId) THEN <<"--session-id", Val(options.sessionId)>>
   ELSE <<>>)
  \o (IF options.noSessionPersistence THEN <<"--no-session-persistence">> ELSE <<>>)

\* the options of a turn that continues the most recent conversation
AskToContinue ==
  [sessionId |-> Null, continueSession |-> TRUE, noSessionPersistence |-> FALSE]

\* askForTask: ask(taskDescription, {systemPrompt, injectIdentity: false,
\* noSessionPersistence: true, cwd})
askForTask ==
  [sessionId |-> Null, continueSession |-> FALSE, noSessionPersistence |-> TRUE]

\* err.message of what ask(), the store and the file system throw
AskError == <<"claude exited with code 1">>

DbError == <<"database is locked">>

FsError == <<"ENOSPC">>

\* --------------------------------------------------------------- history

\* args: the session flags of the task's last claude invocation
NoHist ==
  [parent |-> 0, asked |-> 0, args |-> <<>>, ai |-> Null, thrown |-> Null, done |-> FALSE]

\* ------------------------------------------------------------- heartbeat

Constructed ==
  /\ now = 0
  /\ tasks = <<>>
  /\ memories = <<>>
  /\ narrative = <<>>
  /\ files = [n \in FileNames |-> NoFile]
  /\ intervalId = Null
  /\ busy = FALSE
  /\ inflight = <<>>
  /\ hist = <<>>
  /\ returned = <<>>
  /\ watcher = FALSE
  /\ settleTimer = FALSE
  /\ events = <<>>
  /\ drains = <<>>
  /\ dispatched = [n \in FileNames |-> 0]
  /\ sessions = <<>>
  /\ repl = Null
  /\ turn = <<>>
  /\ stdout = <<>>
  /\ exit = [code |-> 0, stderr |-> ""]
  /\ emitted = <<>>
  /\ buffer = <<>>
  /\ yielded = <<>>
  /\ streamPc = "idle"
  /\ raised = Null
  /\ clock = 0
  /\ deadline = Null
  /\ notes = <<>>
  /\ started = <<>>
  /\ shown = <<>>
  /\ lastTextLength = 0
  /\ assistantSeen = 0
  /\ displayPc = "idle"
  /\ intervals = {}
  /\ pidFile = Null
  /\ alive = {}
  /\ acquired = Null
  /\ daemonPc = "off"
  /\ shuttingDown = FALSE
  /\ daemonRunning = FALSE
  /\ dbOpen = FALSE
  /\ steps = <<>>
  /\ signals = <<>>
  /\ appending = [p \in {"daemon", "repl", "ask"} |-> <<>>]
  /\ appendCalls = 0
  /\ newPending = FALSE
  /\ sent = Null
  /\ errored = {}
  /\ acqPc = [p \in {"p2", "p3"} |-> "idle"]
  /\ acqSeen = [p \in {"p2", "p3"} |-> <<>>]
  /\ acqResult = [p \in {"p2", "p3"} |-> <<>>]

Init ==
  /\ Constructed
  /\ parseIn = <<>>
  /\ parseOut = Null
  /\ parseAgain = Null

\* a guard that lets every call through
NeverBusy == FALSE

\* if (busy) return
TickGuard == busy

Remove(seq, k) == SubSeq(seq, 1, k - 1) \o SubSeq(seq, k + 1, Len(seq))

\* a tick that has passed the guard in process proc: const dueTasks =
\* getDueTasks(), the loop is at its first task
NewTick(proc) ==
  [proc |-> proc, pc |-> "loop", due |-> getDueTasks, i |-> 1, clean |-> <<>>,
   memories |-> <<>>, subs |-> <<>>, says |-> <<>>]

\* heartbeatTick up to the first task: the guard, busy = true, getDueTasks()
HeartbeatTick ==
  IF TickGuard
  THEN /\ returned' = <<"heartbeatTick", "skipped">>
       /\ UNCHANGED <<intervalId, outboxVars, parserVars, sessionVars, streamVars, timedVars, displayVars, runtimeVars, daemonVars, appendVars, replAskVars, errorVars, acquireVars>>
       /\ UNCHANGED <<now, tasks, memories, narrative, files, busy, inflight, hist>>
  ELSE /\ Len(inflight) < MaxInFlight
       /\ busy' = TRUE
       /\ inflight' = Append(inflight, NewTick("daemon"))
       /\ returned' = <<>>
       /\ UNCHANGED <<intervalId, outboxVars, parserVars, sessionVars, streamVars, timedVars, displayVars, runtimeVars, daemonVars, appendVars, replAskVars, errorVars, acquireVars>>
       /\ UNCHANGED <<now, tasks, memories, narrative, files, hist>>

\* for (const task of dueTasks): updateTaskStatus(task.id, "active"); askForTask(...)
MarkActive(k) ==
  LET t == inflight[k] IN
  /\ t.pc = "loop"
  /\ t.i <= Len(t.due)
  /\ tasks' = updateTaskStatus(t.due[t.i], "active", Null)
  /\ inflight' = [inflight EXCEPT ![k].pc = "ask"]
  /\ hist' = [hist EXCEPT ![t.due[t.i]].asked = @ + 1,
                          ![t.due[t.i]].args = buildArgs(askForTask)]
  /\ returned' = <<>>
  /\ UNCHANGED <<intervalId, outboxVars, parserVars, sessionVars, streamVars, timedVars, displayVars, runtimeVars, daemonVars, appendVars, replAskVars, errorVars, acquireVars>>
  /\ UNCHANGED <<now, memories, narrative, files, busy>>

\* the loop is over: finally { busy = false }, the flag of the tick's process
TickReturn(k) ==
  LET t == inflight[k] IN
  /\ t.pc = "loop"
  /\ t.i > Len(t.due)
  /\ busy' = IF t.proc = "daemon" THEN FALSE ELSE busy
  /\ inflight' = Remove(inflight, k)
  /\ returned' = <<>>
  /\ UNCHANGED <<intervalId, outboxVars, parserVars, sessionVars, streamVars, timedVars, displayVars, runtimeVars, daemonVars, appendVars, replAskVars, errorVars, acquireVars>>
  /\ UNCHANGED <<now, tasks, memories, narrative, files, hist>>

\* a catch block that ends the loop
AbortLoop(t) == Len(t.due) + 1

\* where the loop goes on after the catch block
AfterCatch(t) == t.i + 1

\* a catch block that drops the message
NoMessage(message) == Null

\* const message = err instanceof Error ? err.message : String(err)
CatchMessage(message) == Some(message)

\* a catch block that logs the error and writes nothing
CatchOnlyLogs(k, message) ==
  /\ tasks' = tasks
  /\ inflight' = [inflight EXCEPT ![k].pc = "loop", ![k].i = inflight[k].i + 1]

\* a catch block after which the try block goes on where it threw
CatchGoesOn(k, message) ==
  /\ tasks' = updateTaskStatus(inflight[k].due[inflight[k].i], "failed",
                               CatchMessage(message))
  /\ inflight' = inflight

\* catch (err): updateTaskStatus(task.id, "failed", message)
Catch(k, message) ==
  LET t == inflight[k] IN
  /\ tasks' = updateTaskStatus(t.due[t.i], "failed", CatchMessage(message))
  /\ inflight' = [inflight EXCEPT ![k].pc = "loop", ![k].i = AfterCatch(t)]

\* history: the task's processing threw message
Thrown(h, id, message) ==
  [h EXCEPT ![id].thrown = Some(message), ![id].done = TRUE]

\* askForTask resolves: parseClaudeResponse(response.result)
\* parseClaudeOutput: is_error: Boolean(resultObj.is_error ?? false), of a
\* result object whose is_error is absent (Null) or a boolean
parseClaudeOutput(resultObj) ==
  [result   |-> resultObj.result,
   is_error |-> IF IsNull(resultObj.is_error) THEN FALSE
                ELSE Val(resultObj.is_error)]

\* the claude process exited with code 0 and printed resultObj: ask returns
\* parseClaudeOutput(stdout), the tick parses response.result
AskResponds(k, resultObj) ==
  LET t == inflight[k]
      response == parseClaudeOutput(resultObj)
      parsed == parseClaudeResponse(response.result)
  IN /\ t.pc = "ask"
     /\ inflight' = [inflight EXCEPT ![k].pc = "apply",
                                     ![k].clean = parsed.cleanText,
                                     ![k].memories = parsed.memories,
                                     ![k].subs = parsed.tasks,
                                     ![k].says = parsed.says]
     /\ hist' = [hist EXCEPT ![t.due[t.i]].ai = Some([ok |-> TRUE, text |-> response.result])]
     /\ errored' = IF response.is_error THEN errored \cup {t.due[t.i]}
                   ELSE errored \ {t.due[t.i]}
     /\ returned' = <<>>
     /\ UNCHANGED <<intervalId, outboxVars, parserVars, sessionVars, streamVars, timedVars, displayVars, runtimeVars, daemonVars, appendVars, replAskVars, acquireVars>>
     /\ UNCHANGED <<now, tasks, memories, narrative, files, busy>>

\* a response without the error flag
AskReturns(k, result) == AskResponds(k, [result |-> result, is_error |-> Null])

\* askForTask rejects (non-zero exit, unparsable output)
AskThrows(k) ==
  /\ inflight[k].pc = "ask"
  /\ Catch(k, AskError)
  /\ hist' = Thrown([hist EXCEPT ![inflight[k].due[inflight[k].i]].ai =
                                  Some([ok |-> FALSE, text |-> AskError])],
                    inflight[k].due[inflight[k].i], AskError)
  /\ returned' = <<>>
  /\ UNCHANGED <<intervalId, outboxVars, parserVars, sessionVars, streamVars, timedVars, displayVars, runtimeVars, daemonVars, appendVars, replAskVars, errorVars, acquireVars>>
  /\ UNCHANGED <<now, memories, narrative, files, busy>>

\* for (const mem of parsed.memories): createMemory(...); await appendMemory(...)
\* outcome: both succeed, createMemory throws, or appendMemory throws
StoreMemory(k, outcome) ==
  LET t   == inflight[k]
      id  == t.due[t.i]
      mem == t.memories[1]
  IN /\ t.pc = "apply"
     /\ t.memories # <<>>
     /\ memories' = IF outcome = "db" THEN memories
                    ELSE createMemory(mem.category, mem.content, TaskSource(id))
     /\ narrative' = IF outcome = "ok" THEN appendMemory(mem.content, id)
                     ELSE narrative
     /\ IF outcome = "ok"
        THEN /\ inflight' = [inflight EXCEPT ![k].memories = Tail(@)]
             /\ UNCHANGED <<tasks, hist>>
        ELSE /\ Catch(k, IF outcome = "db" THEN DbError ELSE FsError)
             /\ hist' = Thrown(hist, id, IF outcome = "db" THEN DbError ELSE FsError)
     /\ returned' = <<>>
     /\ UNCHANGED <<intervalId, outboxVars, parserVars, sessionVars, streamVars, timedVars, displayVars, runtimeVars, daemonVars, appendVars, replAskVars, errorVars, acquireVars>>
     /\ UNCHANGED <<now, files, busy>>

\* a loop that runs over the due query as it is after the createTask
DueRefreshed(t, created) == Append(t.due, created)

\* for (const task of dueTasks): the loop runs over the rows that
\* getDueTasks() returned at the start of the tick, whatever is created since
DueAfterCreate(t, created) == t.due

\* for (const newTask of parsed.tasks): createTask({...})
CreateSubTask(k, outcome) ==
  LET t  == inflight[k]
      id == t.due[t.i]
  IN /\ t.pc = "apply"
     /\ t.memories = <<>>
     /\ t.subs # <<>>
     /\ IF outcome = "ok"
        THEN /\ Len(tasks) < MaxTasks
             /\ tasks' = Append(tasks, createTask(t.subs[1]))
             /\ hist' = Append(hist, [NoHist EXCEPT !.parent = id])
             /\ inflight' = [inflight EXCEPT ![k].subs = Tail(@),
                                             ![k].due = DueAfterCreate(t, Len(tasks) + 1)]
        ELSE /\ Catch(k, DbError)
             /\ hist' = Thrown(hist, id, DbError)
     /\ returned' = <<>>
     /\ UNCHANGED <<intervalId, outboxVars, parserVars, sessionVars, streamVars, timedVars, displayVars, runtimeVars, daemonVars, appendVars, replAskVars, errorVars, acquireVars>>
     /\ UNCHANGED <<now, memories, narrative, files, busy>>

\* for (const say of parsed.says): await writeSayAction(say.text, say.voice)
\* the two file operations of writeAction are one step here
QueueSay(k, outcome) ==
  LET t  == inflight[k]
      id == t.due[t.i]
  IN /\ t.pc = "apply"
     /\ t.memories = <<>>
     /\ t.subs = <<>>
     /\ t.says # <<>>
     /\ IF outcome = "ok"
        THEN /\ \E name \in FreshNames :
                  files' = Rename(Written(WriteTmp(name,
                                                   SayAction(t.says[1].text,
                                                             t.says[1].voice),
                                                   id), name), name)
             /\ events' = Notify(<<"tmp", "json">>)
             /\ inflight' = [inflight EXCEPT ![k].says = Tail(@)]
             /\ UNCHANGED <<tasks, hist>>
        ELSE /\ Catch(k, FsError)
             /\ hist' = Thrown(hist, id, FsError)
             /\ UNCHANGED <<files, events>>
     /\ returned' = <<>>
     /\ UNCHANGED <<intervalId, watcher, settleTimer, drains, dispatched, parserVars, sessionVars, streamVars, timedVars, displayVars, runtimeVars, daemonVars, appendVars, replAskVars, errorVars, acquireVars>>
     /\ UNCHANGED <<now, memories, narrative, busy>>

\* the response as the AI gave it, markers and all
RawResult(t) == Val(hist[t.due[t.i]].ai).text

\* what the task's result becomes on success
CompletedResult(t) == t.clean

\* updateTaskStatus(task.id, "completed", parsed.cleanText)
Complete(k) ==
  LET t  == inflight[k]
      id == t.due[t.i]
  IN /\ t.pc = "apply"
     /\ t.memories = <<>>
     /\ t.subs = <<>>
     /\ t.says = <<>>
     /\ tasks' = updateTaskStatus(id, "completed", Some(CompletedResult(t)))
     /\ hist' = [hist EXCEPT ![id].done = TRUE]
     /\ inflight' = [inflight EXCEPT ![k].pc = "loop", ![k].i = t.i + 1]
     /\ returned' = <<>>
     /\ UNCHANGED <<intervalId, outboxVars, parserVars, sessionVars, streamVars, timedVars, displayVars, runtimeVars, daemonVars, appendVars, replAskVars, errorVars, acquireVars>>
     /\ UNCHANGED <<now, memories, narrative, files, busy>>

\* ------------------------------------------------------------ the CLI

\* fryler task add <title> [--scheduled <string>]
AddSchedules == {Null, Some("T1"), Some("soon")}

TaskAdd(scheduled_at) ==
  /\ Len(tasks) < MaxTasks
  /\ tasks' = Append(tasks, createTask([title |-> "Cli", priority |-> "3",
                                        scheduled_at |-> scheduled_at]))
  /\ hist' = Append(hist, NoHist)
  /\ returned' = <<>>
  /\ UNCHANGED <<intervalId, outboxVars, parserVars, sessionVars, streamVars, timedVars, displayVars, runtimeVars, daemonVars, appendVars, replAskVars, errorVars, acquireVars>>
  /\ UNCHANGED <<now, memories, narrative, files, busy, inflight>>

\* fryler task cancel <id>: returns result.changes > 0
TaskCancel(id) ==
  /\ returned' = <<"cancelTask", id, CancelMatches(id)>>
  /\ tasks' = cancelTask(id)
  /\ UNCHANGED <<intervalId, outboxVars, parserVars, sessionVars, streamVars, timedVars, displayVars, runtimeVars, daemonVars, appendVars, replAskVars, errorVars, acquireVars>>
  /\ UNCHANGED <<now, memories, narrative, files, busy, inflight, hist>>

\* fryler heartbeat: triggerHeartbeat() in the process of the command, whose
\* module has its own busy flag, false when its only heartbeatTick call starts
cmdHeartbeat ==
  /\ Len(inflight) < MaxInFlight
  /\ inflight' = Append(inflight, NewTick("cli"))
  /\ returned' = <<>>
  /\ UNCHANGED <<intervalId, outboxVars, parserVars, sessionVars, streamVars, timedVars, displayVars, runtimeVars, daemonVars, appendVars, replAskVars, errorVars, acquireVars>>
  /\ UNCHANGED <<now, tasks, memories, narrative, files, busy, hist>>

\* time passes
Advance ==
  /\ now < MaxTime
  /\ now' = now + 1
  /\ returned' = <<>>
  /\ UNCHANGED <<intervalId, outboxVars, parserVars, sessionVars, streamVars, timedVars, displayVars, runtimeVars, daemonVars, appendVars, replAskVars, errorVars, acquireVars>>
  /\ UNCHANGED <<tasks, memories, narrative, files, busy, inflight, hist>>

\* ------------------------------------------------------------ the timer

\* setInterval returns a handle that no live interval has
NewHandle == CHOOSE h \in 1..(Cardinality(intervals) + 1) : h \notin intervals

\* a startHeartbeat without its guard: every call makes an interval
StartUnguarded ==
  /\ Cardinality(intervals) < MaxInFlight
  /\ intervalId' = Some(NewHandle)
  /\ intervals' = intervals \cup {NewHandle}
  /\ returned' = <<>>
  /\ UNCHANGED <<outboxVars, parserVars, sessionVars, streamVars, timedVars, displayVars, daemonVars, appendVars, replAskVars, errorVars, acquireVars>>
  /\ UNCHANGED <<now, tasks, memories, narrative, files, busy, inflight, hist>>

\* startHeartbeat: a second call is ignored; intervalId = setInterval(...)
startHeartbeat ==
  /\ intervalId' = IF IsNull(intervalId) THEN Some(NewHandle) ELSE intervalId
  /\ intervals' = IF IsNull(intervalId) THEN intervals \cup {NewHandle} ELSE intervals
  /\ returned' = <<>>
  /\ UNCHANGED <<outboxVars, parserVars, sessionVars, streamVars, timedVars, displayVars, daemonVars, appendVars, replAskVars, errorVars, acquireVars>>
  /\ UNCHANGED <<now, tasks, memories, narrative, files, busy, inflight, hist>>

\* stopHeartbeat: clearInterval(intervalId); intervalId = null
stopHeartbeat ==
  /\ intervalId' = Null
  /\ intervals' = IF IsNull(intervalId) THEN intervals ELSE intervals \ {Val(intervalId)}
  /\ returned' = <<>>
  /\ UNCHANGED <<outboxVars, parserVars, sessionVars, streamVars, timedVars, displayVars, daemonVars, appendVars, replAskVars, errorVars, acquireVars>>
  /\ UNCHANGED <<now, tasks, memories, narrative, files, busy, inflight, hist>>

\* isHeartbeatRunning: intervalId !== null
isHeartbeatRunning == ~IsNull(intervalId)

\* a tick whose finally block is skipped by the exception
ThrowKeepsBusy ==
  /\ ~TickGuard
  /\ busy' = TRUE
  /\ returned' = <<"heartbeatTick", "threw">>
  /\ UNCHANGED <<intervalId, outboxVars, parserVars, sessionVars, streamVars, timedVars, displayVars, runtimeVars, daemonVars, appendVars, replAskVars, errorVars, acquireVars>>
  /\ UNCHANGED <<now, tasks, memories, narrative, files, inflight, hist>>

\* heartbeatTick whose getDueTasks() throws: busy = true, the exception leaves
\* the try block through finally { busy = false } and rejects the promise
DueQueryThrows ==
  /\ ~TickGuard
  /\ busy' = FALSE
  /\ returned' = <<"heartbeatTick", "threw">>
  /\ UNCHANGED <<intervalId, outboxVars, parserVars, sessionVars, streamVars, timedVars, displayVars, runtimeVars, daemonVars, appendVars, replAskVars, errorVars, acquireVars>>
  /\ UNCHANGED <<now, tasks, memories, narrative, files, inflight, hist>>

\* the interval fires: heartbeatTick().catch(log)
TimerFires ==
  /\ intervals # {}
  /\ (HeartbeatTick \/ DueQueryThrows)

\* ---------------------------------------------------------------- outbox

\* a producer's writeAction, first half: await Bun.write(<name>.tmp, ...)
WriteActionTmp(name) ==
  /\ name \in FreshNames
  /\ Cardinality({n \in FileNames : files[n].st # "none"}) < MaxFiles
  /\ files' = WriteTmp(name, SayAction("hello", Null), 0)
  /\ events' = Notify(<<"tmp">>)
  /\ UNCHANGED <<now, watcher, settleTimer, drains, dispatched>>
  /\ UNCHANGED <<storeVars, parserVars, sessionVars, streamVars, timedVars, displayVars, runtimeVars, daemonVars, appendVars, replAskVars, errorVars, acquireVars>>

\* a producer's writeAction, second half: the await of Bun.write is over,
\* renameSync(<name>.tmp, <name>.json)
WriteActionRename(name) ==
  /\ files[name].st = "tmp"
  /\ files' = Rename(Written(files, name), name)
  /\ events' = Notify(<<"json">>)
  /\ UNCHANGED <<now, watcher, settleTimer, drains, dispatched>>
  /\ UNCHANGED <<storeVars, parserVars, sessionVars, streamVars, timedVars, displayVars, runtimeVars, daemonVars, appendVars, replAskVars, errorVars, acquireVars>>

\* writeSayAction, the whole call: writeAction takes Date.now() and a random
\* suffix for the name, writes <name>.tmp and renames it to <name>.json
writeSayAction(name) ==
  LET n == Cardinality({f \in FileNames : files[f].st # "none"}) + 1 IN
  /\ name \in FreshNames
  /\ n <= MaxFiles
  /\ files' = [Rename(Written(WriteTmp(name, SayAction("hello", Null), 0), name),
                       name)
                 EXCEPT ![name].seq = n]
  /\ events' = Notify(<<"tmp", "json">>)
  /\ UNCHANGED <<now, watcher, settleTimer, drains, dispatched>>
  /\ UNCHANGED <<storeVars, parserVars, sessionVars, streamVars, timedVars, displayVars, runtimeVars, daemonVars, appendVars, replAskVars, errorVars, acquireVars>>

\* a .json file whose content is no JSON, put there by something else
ForeignFile(name) ==
  /\ name \in FreshNames
  /\ Cardinality({n \in FileNames : files[n].st # "none"}) < MaxFiles
  /\ files' = [files EXCEPT ![name] = [NoFile EXCEPT !.st = "json", !.good = FALSE]]
  /\ events' = Notify(<<"json">>)
  /\ UNCHANGED <<now, watcher, settleTimer, drains, dispatched>>
  /\ UNCHANGED <<storeVars, parserVars, sessionVars, streamVars, timedVars, displayVars, runtimeVars, daemonVars, appendVars, replAskVars, errorVars, acquireVars>>

\* startWatcher: stopWatcher(); watcher = watch(dir, callback)
StartWatcher ==
  /\ ~watcher
  /\ watcher' = TRUE
  /\ settleTimer' = FALSE
  /\ events' = <<>>
  /\ UNCHANGED <<now, files, drains, dispatched>>
  /\ UNCHANGED <<storeVars, parserVars, sessionVars, streamVars, timedVars, displayVars, runtimeVars, daemonVars, appendVars, replAskVars, errorVars, acquireVars>>

\* the watch callback: names that do not end in .json are ignored; otherwise
\* clearTimeout(settleTimer); settleTimer = setTimeout(..., 50)
WatchCallback ==
  /\ events # <<>>
  /\ events' = Tail(events)
  /\ settleTimer' = IF events[1] = "json" THEN TRUE ELSE settleTimer
  /\ UNCHANGED <<now, files, watcher, drains, dispatched>>
  /\ UNCHANGED <<storeVars, parserVars, sessionVars, streamVars, timedVars, displayVars, runtimeVars, daemonVars, appendVars, replAskVars, errorVars, acquireVars>>

\* a < b for file names: the timestamp first, then the suffix
NameBefore(a, b) == a[1] < b[1] \/ (a[1] = b[1] /\ a[2] < b[2])

\* readdirSync(dir).filter((f) => f.endsWith(".json")).sort()
RECURSIVE Sorted(_)
Sorted(S) ==
  IF S = {} THEN <<>>
  ELSE LET first == CHOOSE a \in S : \A b \in S \ {a} : NameBefore(a, b)
       IN <<first>> \o Sorted(S \ {first})

Listing == Sorted({n \in FileNames : files[n].st = "json"})

\* the settle timeout fires: processPendingActions lists the directory
SettleFires ==
  /\ settleTimer
  /\ settleTimer' = FALSE
  /\ Len(drains) < MaxDrains
  /\ drains' = Append(drains, [files |-> Listing, i |-> 1, pc |-> "read",
                               log |-> {}])
  /\ UNCHANGED <<now, files, watcher, events, dispatched>>
  /\ UNCHANGED <<storeVars, parserVars, sessionVars, streamVars, timedVars, displayVars, runtimeVars, daemonVars, appendVars, replAskVars, errorVars, acquireVars>>

\* a drain that keeps the file of a failed attempt for a retry
DeletesOnSuccess(outcome) == outcome = "ok"

\* whether the file is deleted after its dispatch attempt ended in outcome:
\* "Always delete the file"
Deletes(outcome) == TRUE

\* unlinkSync(filePath) in its try block: a file that is gone is no error
Unlink(name, outcome) ==
  LET doomed == files[name].st = "json" /\ Deletes(outcome) IN
  /\ files' = IF doomed THEN [files EXCEPT ![name] = [NoFile EXCEPT !.st = "gone"]]
              ELSE files
  /\ events' = IF doomed THEN Notify(<<"json">>) ELSE events

\* await Bun.file(filePath).text(); JSON.parse(content); dispatcher(action)
\* a file that is gone ("read") or is no JSON ("parse") throws: logged, then
\* the unlink; log is history: how each file's attempt ended
DrainRead(d) ==
  LET r    == drains[d]
      name == r.files[r.i]
  IN /\ r.pc = "read"
     /\ r.i <= Len(r.files)
     /\ IF files[name].st = "json" /\ files[name].good
        THEN /\ dispatched' = [dispatched EXCEPT ![name] = @ + 1]
             /\ drains' = [drains EXCEPT ![d].pc = "dispatch"]
             /\ UNCHANGED <<files, events>>
        ELSE /\ Unlink(name, IF files[name].st = "json" THEN "parse" ELSE "read")
             /\ drains' = [drains EXCEPT
                             ![d].i = r.i + 1,
                             ![d].log = @ \cup {IF files[name].st = "json"
                                                 THEN "parse" ELSE "read"}]
             /\ UNCHANGED dispatched
     /\ UNCHANGED <<now, watcher, settleTimer>>
     /\ UNCHANGED <<storeVars, parserVars, sessionVars, streamVars, timedVars, displayVars, runtimeVars, daemonVars, appendVars, replAskVars, errorVars, acquireVars>>

\* the dispatcher settles, resolved or rejected: then the unlink, either way
DrainDispatched(d, outcome) ==
  LET r    == drains[d]
      name == r.files[r.i]
  IN /\ r.pc = "dispatch"
     /\ Unlink(name, outcome)
     /\ drains' = [drains EXCEPT ![d].pc = "read", ![d].i = r.i + 1,
                                 ![d].log = @ \cup {outcome}]
     /\ UNCHANGED <<now, watcher, settleTimer, dispatched>>
     /\ UNCHANGED <<storeVars, parserVars, sessionVars, streamVars, timedVars, displayVars, runtimeVars, daemonVars, appendVars, replAskVars, errorVars, acquireVars>>

\* the loop is over: processPendingActions returns
DrainReturns(d) ==
  /\ drains[d].pc = "read"
  /\ drains[d].i > Len(drains[d].files)
  /\ drains' = Remove(drains, d)
  /\ UNCHANGED <<now, files, watcher, settleTimer, events, dispatched>>
  /\ UNCHANGED <<storeVars, parserVars, sessionVars, streamVars, timedVars, displayVars, runtimeVars, daemonVars, appendVars, replAskVars, errorVars, acquireVars>>

Next ==
  \/ HeartbeatTick
  \/ \E k \in DOMAIN inflight : MarkActive(k)
  \/ \E k \in DOMAIN inflight : \E result \in Responses : AskReturns(k, result)
  \/ \E k \in DOMAIN inflight : AskThrows(k)
  \/ \E k \in DOMAIN inflight : \E outcome \in {"ok", "db", "fs"} : StoreMemory(k, outcome)
  \/ \E k \in DOMAIN inflight : \E outcome \in {"ok", "db"} : CreateSubTask(k, outcome)
  \/ \E k \in DOMAIN inflight : \E outcome \in {"ok", "fs"} : QueueSay(k, outcome)
  \/ \E k \in DOMAIN inflight : Complete(k)
  \/ \E k \in DOMAIN inflight : TickReturn(k)
  \/ \E scheduled_at \in AddSchedules : TaskAdd(scheduled_at)
  \/ \E id \in 1..MaxTasks : TaskCancel(id)
  \/ Advance

Spec == Init /\ [][Next]_vars

\* the outbox on its own, within one millisecond of the clock: the names of
\* the files differ in the random suffix, so they sort in any order
OutboxNext ==
  \/ \E name \in FileNames : WriteActionTmp(name)
  \/ \E name \in FileNames : WriteActionRename(name)
  \/ \E name \in FileNames : ForeignFile(name)
  \/ StartWatcher
  \/ WatchCallback
  \/ SettleFires
  \/ \E d \in DOMAIN drains : DrainRead(d)
  \/ \E d \in DOMAIN drains : \E outcome \in {"ok", "throw"} : DrainDispatched(d, outcome)
  \/ \E d \in DOMAIN drains : DrainReturns(d)

OutboxSpec == Init /\ [][OutboxNext]_vars

\* ---------------------------------------------------------------- parser

\* <!--FRYLER_<kw> {<body>}-->
Marker(kw, body) == <<"<!--", kw, "{">> \o body \o <<"}", "-->">>

\* the priority members a task marker can carry
PrioTokens == {"tPrio", "tPrioBig", "tPrioHalf", "tPrioZero", "tPrioStr"}

\* what the texts are made of: words and line ends, task markers with and
\* without a priority, a marker with broken JSON, a marker without its
\* required content, a say marker, and the two halves of a say marker, the
\* second with the word that follows it
Pieces ==
  {<<"w">>, <<"nl">>, <<"nl", "nl">>}
  \cup {Marker("TASK:", <<"tTitle">>)}
  \cup {Marker("TASK:", <<"tTitle", p>>) : p \in PrioTokens}
  \cup {Marker("TASK:", <<"w">>), Marker("MEMORY:", <<"tCategory">>),
        Marker("SAY:", <<"tText">>)}
  \cup {<<"<!--", "SAY:">>, <<"{", "tText", "}", "-->", "w">>}

RECURSIVE Flatten(_)
Flatten(ps) == IF ps = <<>> THEN <<>> ELSE ps[1] \o Flatten(Tail(ps))

\* the texts parseClaudeResponse is called with: up to MaxParts pieces
Texts == {Flatten(ps) : ps \in UNION {[1..n -> Pieces] : n \in 0..MaxParts}}

ParserInit ==
  /\ Constructed
  /\ parseIn \in Texts
  /\ parseOut = Null
  /\ parseAgain = Null

\* parseClaudeResponse(rawText)
ParseResponse ==
  /\ IsNull(parseOut)
  /\ parseOut' = Some(parseClaudeResponse(parseIn))
  /\ UNCHANGED <<now, files, storeVars, outboxVars, parseIn, parseAgain, sessionVars, streamVars, timedVars, displayVars, runtimeVars, daemonVars, appendVars, replAskVars, errorVars, acquireVars>>

\* parseClaudeResponse(result.cleanText)
ParseCleanText ==
  /\ ~IsNull(parseOut)
  /\ IsNull(parseAgain)
  /\ parseAgain' = Some(parseClaudeResponse(Val(parseOut).cleanText))
  /\ UNCHANGED <<now, files, storeVars, outboxVars, parseIn, parseOut, sessionVars, streamVars, timedVars, displayVars, runtimeVars, daemonVars, appendVars, replAskVars, errorVars, acquireVars>>

ParserNext == ParseResponse \/ ParseCleanText

ParserSpec == ParserInit /\ [][ParserNext]_vars

\* a producer that enqueues one action after the other, a consumer that
\* watches the directory, and the clock
OrderNext ==
  \/ \E name \in FileNames : writeSayAction(name)
  \/ StartWatcher
  \/ WatchCallback
  \/ SettleFires
  \/ \E d \in DOMAIN drains : DrainRead(d)
  \/ \E d \in DOMAIN drains : \E outcome \in {"ok", "throw"} : DrainDispatched(d, outcome)
  \/ \E d \in DOMAIN drains : DrainReturns(d)
  \/ Advance

OrderSpec == Init /\ [][OrderNext]_vars

\* the daemon's ticks with the task commands and the heartbeat command of the
\* CLI, for tasks whose responses carry no directive
TriggerNext ==
  \/ HeartbeatTick
  \/ cmdHeartbeat
  \/ \E k \in DOMAIN inflight : MarkActive(k)
  \/ \E k \in DOMAIN inflight : AskReturns(k, RPlain)
  \/ \E k \in DOMAIN inflight : AskThrows(k)
  \/ \E k \in DOMAIN inflight : Complete(k)
  \/ \E k \in DOMAIN inflight : TickReturn(k)
  \/ \E scheduled_at \in AddSchedules : TaskAdd(scheduled_at)
  \/ \E id \in 1..MaxTasks : TaskCancel(id)

TriggerSpec == Init /\ [][TriggerNext]_vars

\* the daemon's timer and its ticks, without the CLI
TimerNext ==
  \/ startHeartbeat
  \/ stopHeartbeat
  \/ TimerFires
  \/ \E k \in DOMAIN inflight : MarkActive(k)
  \/ \E k \in DOMAIN inflight : \E result \in Responses : AskReturns(k, result)
  \/ \E k \in DOMAIN inflight : AskThrows(k)
  \/ \E k \in DOMAIN inflight : \E outcome \in {"ok", "db", "fs"} : StoreMemory(k, outcome)
  \/ \E k \in DOMAIN inflight : \E outcome \in {"ok", "db"} : CreateSubTask(k, outcome)
  \/ \E k \in DOMAIN inflight : \E outcome \in {"ok", "fs"} : QueueSay(k, outcome)
  \/ \E k \in DOMAIN inflight : Complete(k)
  \/ \E k \in DOMAIN inflight : TickReturn(k)
  \/ \E scheduled_at \in AddSchedules : TaskAdd(scheduled_at)

TimerSpec == Init /\ [][TimerNext]_vars

\* -------------------------------------------------------------- sessions

\* session identifiers the claude subprocess reports
SessionIds == {"s1", "s2"}

\* SELECT * FROM sessions WHERE claude_session_id = $claude_session_id
getSession(id) ==
  LET rows == SelectSeq(sessions, LAMBDA row : row.claude_session_id = id)
  IN IF rows = <<>> THEN Null ELSE Some(rows[1])

\* claude_session_id TEXT NOT NULL UNIQUE: the INSERT of a stored id throws
UniqueFails(id) == ~IsNull(getSession(id))

\* INSERT INTO sessions (claude_session_id, title): the other columns take
\* their defaults, datetime('now') and 0
InsertSession(tbl, id, title) ==
  Append(tbl, [claude_session_id |-> id, title |-> title,
               last_active_at |-> now, message_count |-> 0])

\* UPDATE sessions SET last_active_at = datetime('now')[, message_count = $n]
\*   WHERE claude_session_id = $claude_session_id
UpdateRows(tbl, id, count) ==
  [i \in DOMAIN tbl |->
     IF tbl[i].claude_session_id # id THEN tbl[i]
     ELSE [tbl[i] EXCEPT !.last_active_at = now,
                         !.message_count = IF IsNull(count) THEN @ ELSE Val(count)]]

updateSession(id, count) == UpdateRows(sessions, id, count)

\* sessions.find((s) => s.title?.startsWith(prefix)) finds a row
TitledSession(prefix) == \E i \in DOMAIN sessions : sessions[i].title = Some(prefix)

SessionFrame == UNCHANGED <<now, files, storeVars, outboxVars, parserVars, streamVars, timedVars, displayVars, runtimeVars, daemonVars, appendVars, errorVars, acquireVars>>

\* createSession(claude_session_id) called with any identifier
CreateSession(id) ==
  /\ sessions' = IF UniqueFails(id) THEN sessions ELSE InsertSession(sessions, id, Null)
  /\ turn' = Some([cmd |-> "createSession", S |-> Some(id), threw |-> UniqueFails(id)])
  /\ UNCHANGED <<repl, replAskVars>>
  /\ SessionFrame

\* how a command picks the session: --session <id>, the most recent one, --new
Modes == {"session", "auto", "new"}

\* fryler ask <prompt>: S is response.session_id, Null when the response has
\* none; the response text carries no marker.  With --session the response is
\* of that session, with --continue of a session the store knows, and a fresh
\* session has an identifier the store does not know
cmdAsk(mode, X, S) ==
  LET sessionId  == IF mode = "session" THEN Some(X) ELSE Null
      isResuming == mode = "auto" /\ TitledSession("[cli] ")
      tracked    == isResuming \/ ~IsNull(sessionId)
  IN /\ \/ IsNull(S)
        \/ /\ ~IsNull(S)
           /\ ~IsNull(sessionId) => S = sessionId
           /\ isResuming => ~IsNull(getSession(Val(S)))
           /\ ~tracked => IsNull(getSession(Val(S)))
     /\ sessions' = IF IsNull(S) THEN sessions
                    ELSE IF tracked THEN updateSession(Val(S), Null)
                    ELSE IF UniqueFails(Val(S)) THEN sessions
                    ELSE InsertSession(sessions, Val(S), Some("[cli] "))
     /\ turn' = Some([cmd |-> "ask", S |-> S,
                 threw |-> ~IsNull(S) /\ ~tracked /\ UniqueFails(Val(S))])
     /\ UNCHANGED <<repl, replAskVars>>
     /\ SessionFrame

\* fryler chat [--session <id> | --new] and fryler resume <id>: startRepl up
\* to its first prompt
startRepl(mode, X) ==
  /\ IsNull(repl)
  /\ repl' = Some([sessionId    |-> IF mode = "session" THEN Some(X) ELSE Null,
                   hasExchanged |-> FALSE,
                   messageCount |-> 0,
                   autoResume   |-> mode = "auto" /\ TitledSession("[chat] ")])
  /\ turn' = <<>>
  /\ newPending' = FALSE
  /\ sent' = Null
  /\ UNCHANGED sessions
  /\ SessionFrame

\* const askOpts: --continue after an exchange or with autoResume, otherwise
\* the explicit session id if there is one
askOpts(r) ==
  [continueSession      |-> r.hasExchanged \/ r.autoResume,
   sessionId            |-> IF r.hasExchanged \/ r.autoResume THEN Null ELSE r.sessionId,
   noSessionPersistence |-> FALSE]

\* one input line sent to the AI: S is the session_id of the result event
ReplTurn(S) ==
  LET r         == Val(repl)
      continue  == r.hasExchanged \/ r.autoResume
      sid       == IF IsNull(r.sessionId) THEN S ELSE r.sessionId
      created   == IF IsNull(r.sessionId) /\ IsNull(getSession(Val(S)))
                   THEN InsertSession(sessions, Val(S), Some("[chat] "))
                   ELSE sessions
  IN /\ ~IsNull(repl)
     /\ r.messageCount < MaxCount
     /\ \/ IsNull(S)
        \/ /\ ~IsNull(S)
           /\ ~IsNull(r.sessionId) => S = r.sessionId
           /\ (IsNull(r.sessionId) /\ continue) => ~IsNull(getSession(Val(S)))
           /\ (IsNull(r.sessionId) /\ ~continue) => IsNull(getSession(Val(S)))
     /\ IF IsNull(S)
        THEN UNCHANGED <<sessions, repl>>
        ELSE /\ sessions' = UpdateRows(created, Val(sid), Some(r.messageCount + 1))
             /\ repl' = Some([r EXCEPT !.sessionId = sid, !.hasExchanged = TRUE,
                                       !.messageCount = @ + 1])
     /\ turn' = Some([cmd |-> "repl", S |-> S, threw |-> FALSE])
     /\ sent' = Some([args |-> buildArgs(askOpts(r)), afterNew |-> newPending])
     /\ newPending' = FALSE
     /\ SessionFrame

\* /new: resetSession()
ReplNew ==
  /\ ~IsNull(repl)
  /\ repl' = Some([Val(repl) EXCEPT !.sessionId = Null, !.hasExchanged = FALSE,
                                    !.messageCount = 0])
  /\ turn' = <<>>
  /\ newPending' = TRUE
  /\ UNCHANGED <<sessions, sent>>
  /\ SessionFrame

\* /quit
ReplQuit ==
  /\ ~IsNull(repl)
  /\ repl' = Null
  /\ turn' = <<>>
  /\ UNCHANGED <<sessions, replAskVars>>
  /\ SessionFrame

\* the clock of the session store
SessionClock ==
  /\ now < MaxTime
  /\ now' = now + 1
  /\ turn' = <<>>
  /\ UNCHANGED <<sessions, repl>>
  /\ UNCHANGED <<files, storeVars, outboxVars, parserVars, streamVars, timedVars, displayVars, runtimeVars, daemonVars, appendVars, replAskVars, errorVars, acquireVars>>

SessionNext ==
  \/ \E id \in SessionIds : CreateSession(id)
  \/ \E mode \in Modes : \E X \in SessionIds : \E S \in {Null} \cup {Some(id) : id \in SessionIds} :
       cmdAsk(mode, X, S)
  \/ \E mode \in Modes : \E X \in SessionIds : startRepl(mode, X)
  \/ \E S \in {Null} \cup {Some(id) : id \in SessionIds} : ReplTurn(S)
  \/ ReplNew
  \/ ReplQuit
  \/ SessionClock

SessionSpec == Init /\ [][SessionNext]_vars

\* the daemon's ticks next to the one-shot asks of the CLI, which write the
\* sessions table, for tasks whose responses carry no directive
TaskSessionNext ==
  \/ HeartbeatTick
  \/ \E k \in DOMAIN inflight : MarkActive(k)
  \/ \E k \in DOMAIN inflight : AskReturns(k, RPlain)
  \/ \E k \in DOMAIN inflight : AskThrows(k)
  \/ \E k \in DOMAIN inflight : Complete(k)
  \/ \E k \in DOMAIN inflight : TickReturn(k)
  \/ \E scheduled_at \in AddSchedules : TaskAdd(scheduled_at)
  \/ \E mode \in Modes : \E X \in SessionIds : \E S \in {Null} \cup {Some(id) : id \in SessionIds} :
       cmdAsk(mode, X, S)

TaskSessionSpec == Init /\ [][TaskSessionNext]_vars

\* ------------------------------------------------------------- streaming

\* the lines the subprocess can write: two events, a line that is no JSON, a
\* line of one blank
StreamLines == {<<"{", "1", "}">>, <<"{", "2", "}">>, <<"{", "1">>, <<"sp">>}

RECURSIVE JoinLines(_)
\* the lines, each ended by a line feed
JoinLines(ls) == IF ls = <<>> THEN <<>> ELSE ls[1] \o <<"nl">> \o JoinLines(Tail(ls))

\* what the subprocess writes in all: up to MaxLines lines, the last one with
\* or without its line feed
StreamTexts ==
  LET joined == {JoinLines(ls) : ls \in UNION {[1..n -> StreamLines] : n \in 0..MaxLines}}
  IN joined \cup {SubSeq(t, 1, Len(t) - 1) : t \in joined \ {<<>>}}

RECURSIVE SplitNl(_, _)
\* text.split("\n"), cur being the line that is open
SplitNl(text, cur) ==
  IF text = <<>> THEN <<cur>>
  ELSE IF text[1] = "nl" THEN <<cur>> \o SplitNl(Tail(text), <<>>)
  ELSE SplitNl(Tail(text), Append(cur, text[1]))

\* JSON.parse(trimmed) returns
Parses(trimmed) == trimmed \in {<<"{", "1", "}">>, <<"{", "2", "}">>}

RECURSIVE EventsUntilBad(_)
\* a loop that a line that does not parse ends
EventsUntilBad(lines) ==
  IF lines = <<>> THEN <<>>
  ELSE LET trimmed == Trim(lines[1]) IN
       IF trimmed = <<>> THEN EventsUntilBad(Tail(lines))
       ELSE IF Parses(trimmed) THEN <<trimmed[2]>> \o EventsUntilBad(Tail(lines))
       ELSE <<>>

RECURSIVE EventsOf(_)
\* for (const line of lines): skip the blank line, yield the event of a line
\* that parses, log the line that does not
EventsOf(lines) ==
  IF lines = <<>> THEN <<>>
  ELSE LET trimmed == Trim(lines[1]) IN
       IF trimmed = <<>> THEN EventsOf(Tail(lines))
       ELSE IF Parses(trimmed) THEN <<trimmed[2]>> \o EventsOf(Tail(lines))
       ELSE EventsOf(Tail(lines))

StreamFrame == UNCHANGED <<now, files, storeVars, outboxVars, parserVars, sessionVars, timedVars, displayVars, runtimeVars, daemonVars, appendVars, replAskVars, errorVars, acquireVars>>

\* askStreaming starts the subprocess, which will write text and exit with code
askStreaming(text, code, stderr) ==
  /\ streamPc = "idle"
  /\ stdout' = text
  /\ emitted' = text
  /\ exit' = [code |-> code, stderr |-> stderr]
  /\ streamPc' = "reading"
  /\ UNCHANGED <<buffer, yielded, raised>>
  /\ StreamFrame

\* reader.read() returns the next n characters: buffer += chunk, the lines
\* but the last are gone through, the last stays in the buffer
StreamRead(n) ==
  LET lines == SplitNl(buffer \o SubSeq(stdout, 1, n), <<>>) IN
  /\ streamPc = "reading"
  /\ n \in 1..Len(stdout)
  /\ stdout' = SubSeq(stdout, n + 1, Len(stdout))
  /\ buffer' = lines[Len(lines)]
  /\ yielded' = yielded \o EventsOf(SubSeq(lines, 1, Len(lines) - 1))
  /\ UNCHANGED <<exit, emitted, streamPc, raised>>
  /\ StreamFrame

\* reader.read() returns done: what is left in the buffer is a line
StreamDone ==
  /\ streamPc = "reading"
  /\ stdout = <<>>
  /\ yielded' = yielded \o EventsOf(<<buffer>>)
  /\ streamPc' = "exiting"
  /\ UNCHANGED <<stdout, exit, emitted, buffer, raised>>
  /\ StreamFrame

\* await proc.exited: a code other than 0 throws, with the text of stderr
StreamExit ==
  /\ streamPc = "exiting"
  /\ streamPc' = IF exit.code # 0 THEN "threw" ELSE "returned"
  /\ raised' = IF exit.code # 0 THEN Some(<<"claude exited with code", exit.code, exit.stderr>>)
               ELSE Null
  /\ UNCHANGED <<stdout, exit, emitted, buffer, yielded>>
  /\ StreamFrame

StreamNext ==
  \/ \E text \in StreamTexts : \E code \in {0, 1} : \E stderr \in {"", "boom"} :
       askStreaming(text, code, stderr)
  \/ \E n \in 1..(4 * MaxLines + 1) : StreamRead(n)
  \/ StreamDone
  \/ StreamExit

StreamSpec == Init /\ [][StreamNext]_vars

\* --------------------------------------------------------- settle delay

\* the watcher with its timing: the event loop's clock moves in steps of 25 or
\* 50 ms, the settle timeout fires at its time, before a change notification
\* that is due at the same instant (timers run first in a loop iteration)
TimedFrame ==
  UNCHANGED <<now, files, storeVars, events, dispatched, parserVars, sessionVars, streamVars, displayVars, runtimeVars, daemonVars, appendVars, replAskVars, errorVars, acquireVars>>

\* a callback that arms the timeout for every name
AnyName(filename) == TRUE

\* filename.endsWith(".json")
EndsWithJson(filename) == filename = "json"

\* the watch callback runs for a change of filename: !filename.endsWith(".json")
\* returns; otherwise clearTimeout(settleTimer); settleTimer = setTimeout(.., 50)
TimedWatchCallback(filename) ==
  /\ watcher
  /\ Len(notes) < MaxNotes
  /\ deadline # Some(clock)
  /\ notes' = Append(notes, [at |-> clock, json |-> filename = "json"])
  /\ IF EndsWithJson(filename)
     THEN /\ settleTimer' = TRUE
          /\ deadline' = Some(clock + SettleDelay)
     ELSE UNCHANGED <<settleTimer, deadline>>
  /\ UNCHANGED <<watcher, drains, clock, started>>
  /\ TimedFrame

\* time passes, never beyond the time of an armed timeout
Pass(d) ==
  /\ clock + d <= MaxClock
  /\ IF IsNull(deadline) THEN TRUE ELSE clock + d <= deadline[1]
  /\ clock' = clock + d
  /\ UNCHANGED <<watcher, settleTimer, drains, deadline, notes, started>>
  /\ TimedFrame

\* the settle timeout fires at its time: processPendingActions lists the
\* directory
TimedSettleFires ==
  /\ deadline = Some(clock)
  /\ settleTimer
  /\ Len(drains) < MaxDrains
  /\ settleTimer' = FALSE
  /\ deadline' = Null
  /\ started' = Append(started, clock)
  /\ drains' = Append(drains, [files |-> Listing, i |-> 1, pc |-> "read",
                               log |-> {}])
  /\ UNCHANGED <<watcher, clock, notes>>
  /\ TimedFrame

SettleNext ==
  \/ StartWatcher
  \/ \E filename \in {"json", "tmp"} : TimedWatchCallback(filename)
  \/ \E d \in {25, 50} : Pass(d)
  \/ TimedSettleFires
  \/ \E d \in DOMAIN drains : DrainReturns(d)

SettleSpec == Init /\ [][SettleNext]_vars

\* ---------------------------------------------------------------- display

\* the responses that are displayed: up to MaxReply pieces
Replies == {Flatten(ps) : ps \in UNION {[1..n -> Pieces] : n \in 0..MaxReply}}

\* parseIn is the text of the AI's response (the result event's result)
DisplayInit ==
  /\ Constructed
  /\ parseIn \in Replies
  /\ parseOut = Null
  /\ parseAgain = Null

DisplayFrame ==
  UNCHANGED <<now, files, storeVars, outboxVars, parserVars, sessionVars, streamVars, timedVars, runtimeVars, daemonVars, appendVars, replAskVars, errorVars, acquireVars>>

\* cmdAsk: console.log(parseClaudeResponse(response.result).cleanText)
cmdAskShow ==
  /\ displayPc = "idle"
  /\ shown' = parseClaudeResponse(parseIn).cleanText \o <<"nl">>
  /\ displayPc' = "done"
  /\ UNCHANGED <<lastTextLength, assistantSeen>>
  /\ DisplayFrame

\* startRepl: process.stdout.write("\n"), then the events of askStreaming
ReplSend ==
  /\ displayPc = "idle"
  /\ shown' = <<"nl">>
  /\ displayPc' = "streaming"
  /\ UNCHANGED <<lastTextLength, assistantSeen>>
  /\ DisplayFrame

\* an assistant event whose text blocks hold the first n tokens of the
\* response: a shorter text resets lastTextLength, a longer one is written
\* from lastTextLength on
ReplAssistant(n) ==
  LET last == IF n < lastTextLength THEN 0 ELSE lastTextLength IN
  /\ displayPc = "streaming"
  /\ assistantSeen < MaxEvents
  /\ n \in 1..Len(parseIn)
  /\ assistantSeen' = assistantSeen + 1
  /\ shown' = IF n > last THEN shown \o SubSeq(parseIn, last + 1, n) ELSE shown
  /\ lastTextLength' = IF n > last THEN n ELSE last
  /\ UNCHANGED displayPc
  /\ DisplayFrame

\* the result event and the end of the sequence: the clean text is written
\* only if nothing was streamed; then "\n\n"
ReplResult ==
  /\ displayPc = "streaming"
  /\ shown' = (IF lastTextLength = 0 /\ parseIn # <<>>
               THEN shown \o parseClaudeResponse(parseIn).cleanText
               ELSE shown) \o <<"nl", "nl">>
  /\ displayPc' = "done"
  /\ UNCHANGED <<lastTextLength, assistantSeen>>
  /\ DisplayFrame

DisplayNext ==
  \/ cmdAskShow
  \/ ReplSend
  \/ \E n \in 1..(6 * MaxReply) : ReplAssistant(n)
  \/ ReplResult

DisplaySpec == DisplayInit /\ [][DisplayNext]_vars

\* ----------------------------------------------------------------- daemon

\* process.pid of the daemon, and the PIDs of other processes
SelfPid == "self"

OtherPids == {"p2", "p3"}

\* readPid: null when the file is absent or holds no number
readPid(file) == IF IsNull(file) \/ Val(file) = "junk" THEN Null ELSE file

\* isRunning(pid): process.kill(pid, 0) does not throw
isRunning(pid, live) == pid \in live

\* acquirePid called by process self while the processes of live run (self is
\* one of them): false if the file holds the PID of a running process,
\* otherwise removePid(), writePid() and true
acquirePid(file, live, self) ==
  LET existingPid == readPid(file) IN
  IF ~IsNull(existingPid) /\ isRunning(Val(existingPid), live)
  THEN [ok |-> FALSE, file |-> file]
  ELSE [ok |-> TRUE, file |-> Some(self)]

\* a shutdown that closes the store first
CloseFirst == <<"closeDb", "stopHeartbeat", "removePid">>

\* shutdownDaemon: stopHeartbeat(); closeDb(); removePid()
ShutdownOrder == <<"stopHeartbeat", "closeDb", "removePid">>

\* the daemon process exists
DaemonLive == IF daemonPc \in {"off", "exited"} THEN {} ELSE {SelfPid}

DaemonFrame ==
  UNCHANGED <<now, files, outboxVars, parserVars, sessionVars, streamVars, timedVars, displayVars, appendVars, replAskVars, errorVars, acquireVars>>

TickFrame == UNCHANGED <<tasks, memories, narrative, hist>>

\* another process starts or ends
ProcStarts(p) ==
  /\ p \notin alive
  /\ alive' = alive \cup {p}
  /\ UNCHANGED <<pidFile, acquired, daemonPc, shuttingDown, daemonRunning, dbOpen, steps, signals>>
  /\ UNCHANGED <<storeVars, runtimeVars>>
  /\ DaemonFrame

ProcDies(p) ==
  /\ p \in alive
  /\ alive' = alive \ {p}
  /\ UNCHANGED <<pidFile, acquired, daemonPc, shuttingDown, daemonRunning, dbOpen, steps, signals>>
  /\ UNCHANGED <<storeVars, runtimeVars>>
  /\ DaemonFrame

\* process p runs fryler start: its acquirePid
OtherDaemon(p) ==
  /\ p \in alive
  /\ pidFile' = acquirePid(pidFile, alive \cup DaemonLive, p).file
  /\ pidFile' # pidFile
  /\ UNCHANGED <<alive, acquired, daemonPc, shuttingDown, daemonRunning, dbOpen, steps, signals>>
  /\ UNCHANGED <<storeVars, runtimeVars>>
  /\ DaemonFrame

\* the file is overwritten with something that is no number
JunkPidFile ==
  /\ pidFile # Some("junk")
  /\ pidFile' = Some("junk")
  /\ UNCHANGED <<alive, acquired, daemonPc, shuttingDown, daemonRunning, dbOpen, steps, signals>>
  /\ UNCHANGED <<storeVars, runtimeVars>>
  /\ DaemonFrame

\* startDaemon up to await getConfig(): acquirePid(), process.exit(1) if it
\* returns false
StartDaemon ==
  LET r == acquirePid(pidFile, alive \cup {SelfPid}, SelfPid) IN
  /\ daemonPc = "off"
  /\ acquired' = Some(r.ok)
  /\ pidFile' = r.file
  /\ daemonPc' = IF r.ok THEN "config" ELSE "exited"
  /\ UNCHANGED <<alive, shuttingDown, daemonRunning, dbOpen, steps, signals>>
  /\ UNCHANGED <<storeVars, runtimeVars>>
  /\ DaemonFrame

\* getConfig() resolves: registerSignalHandlers, initIdentityFiles(), getDb(),
\* up to await readSoul()
ConfigLoaded ==
  /\ daemonPc = "config"
  /\ shuttingDown' = FALSE
  /\ dbOpen' = TRUE
  /\ daemonPc' = "init"
  /\ UNCHANGED <<pidFile, alive, acquired, daemonRunning, steps, signals>>
  /\ UNCHANGED <<storeVars, runtimeVars>>
  /\ DaemonFrame

\* reading the identity files throws: the catch block calls shutdownDaemon(),
\* which returns at once (daemonRunning is false), then process.exit(1)
InitFails ==
  /\ daemonPc = "init"
  /\ daemonPc' = "exiting"
  /\ UNCHANGED <<pidFile, alive, acquired, shuttingDown, daemonRunning, dbOpen, steps, signals>>
  /\ UNCHANGED <<storeVars, runtimeVars>>
  /\ DaemonFrame

\* the identity files are read: startHeartbeat(intervalMs); daemonRunning = true
InitDone ==
  /\ daemonPc = "init"
  /\ intervalId' = IF IsNull(intervalId) THEN Some(NewHandle) ELSE intervalId
  /\ intervals' = IF IsNull(intervalId) THEN intervals \cup {NewHandle} ELSE intervals
  /\ daemonRunning' = TRUE
  /\ daemonPc' = "running"
  /\ UNCHANGED <<pidFile, alive, acquired, shuttingDown, dbOpen, steps, signals>>
  /\ UNCHANGED <<busy, inflight, returned>>
  /\ TickFrame
  /\ DaemonFrame

\* SIGTERM or SIGINT arrives. Before the handlers are registered it ends the
\* process. Afterwards handler(): return if shuttingDown; shuttingDown = true;
\* cleanup() enters shutdownDaemon, which returns at once if !daemonRunning and
\* otherwise sets daemonRunning = false and goes through its steps
Signal(sig) ==
  /\ daemonPc \in {"config", "init", "running", "stopping", "exiting"}
  /\ Len(signals) < MaxSignals
  /\ signals' = Append(signals, sig)
  /\ IF daemonPc = "config"
     THEN /\ daemonPc' = "exited"
          /\ UNCHANGED <<shuttingDown, daemonRunning>>
     ELSE IF shuttingDown \/ daemonPc = "exiting"
     THEN /\ shuttingDown' = TRUE
          /\ UNCHANGED <<daemonPc, daemonRunning>>
     ELSE /\ shuttingDown' = TRUE
          /\ daemonRunning' = FALSE
          /\ daemonPc' = IF daemonRunning THEN "stopping" ELSE "exiting"
  /\ UNCHANGED <<pidFile, alive, acquired, dbOpen, steps>>
  /\ UNCHANGED <<storeVars, runtimeVars>>
  /\ DaemonFrame

\* the next step of shutdownDaemon
ShutdownStep ==
  LET s == ShutdownOrder[Len(steps) + 1] IN
  /\ daemonPc = "stopping"
  /\ steps' = Append(steps, s)
  /\ daemonPc' = IF Len(steps') = Len(ShutdownOrder) THEN "exiting" ELSE "stopping"
  /\ intervalId' = IF s = "stopHeartbeat" THEN Null ELSE intervalId
  /\ intervals' = IF s = "stopHeartbeat" /\ ~IsNull(intervalId)
                  THEN intervals \ {Val(intervalId)} ELSE intervals
  /\ dbOpen' = IF s = "closeDb" THEN FALSE ELSE dbOpen
  /\ pidFile' = IF s = "removePid" THEN Null ELSE pidFile
  /\ UNCHANGED <<alive, acquired, shuttingDown, daemonRunning, signals>>
  /\ UNCHANGED <<busy, inflight, returned>>
  /\ TickFrame
  /\ DaemonFrame

\* process.exit: the process is gone, with its timers, its ticks in flight
\* and its connection to the store
ProcessExit ==
  /\ daemonPc = "exiting"
  /\ daemonPc' = "exited"
  /\ steps' = Append(steps, "exit")
  /\ intervalId' = Null
  /\ intervals' = {}
  /\ busy' = FALSE
  /\ inflight' = <<>>
  /\ dbOpen' = FALSE
  /\ UNCHANGED <<pidFile, alive, acquired, shuttingDown, daemonRunning, signals, returned>>
  /\ TickFrame
  /\ DaemonFrame

\* the daemon is started again with the same PID (a container restart)
Restart ==
  /\ daemonPc = "exited"
  /\ daemonPc' = "off"
  /\ acquired' = Null
  /\ shuttingDown' = FALSE
  /\ daemonRunning' = FALSE
  /\ steps' = <<>>
  /\ signals' = <<>>
  /\ UNCHANGED <<pidFile, alive, dbOpen>>
  /\ UNCHANGED <<storeVars, runtimeVars>>
  /\ DaemonFrame

DaemonNext ==
  \/ \E p \in OtherPids : ProcStarts(p)
  \/ \E p \in OtherPids : ProcDies(p)
  \/ \E p \in OtherPids : OtherDaemon(p)
  \/ JunkPidFile
  \/ StartDaemon
  \/ ConfigLoaded
  \/ InitFails
  \/ InitDone
  \/ \E sig \in {"SIGTERM", "SIGINT"} : Signal(sig)
  \/ ShutdownStep
  \/ ProcessExit
  \/ Restart
  \/ TimerFires
  \/ \E k \in DOMAIN inflight : TickReturn(k)

DaemonSpec == Init /\ [][DaemonNext]_vars

\* ------------------------------------------------- the narrative document

\* the processes that call appendMemory: the daemon's tick, a REPL, a
\* one-shot ask
AppendProcs == {"daemon", "repl", "ask"}

AppendFrame ==
  UNCHANGED <<now, files, tasks, memories, intervalId, busy, inflight, hist, returned,
              outboxVars, parserVars, sessionVars, streamVars, timedVars, displayVars,
              runtimeVars, daemonVars, replAskVars, errorVars, acquireVars>>

\* appendMemory up to the await of Bun.write: existing = await file.text(),
\* appended = existing + "\n### <timestamp>\n" + entry
AppendRead(proc) ==
  /\ IsNull(appending[proc])
  /\ appendCalls + Cardinality({q \in AppendProcs : ~IsNull(appending[q])}) < MaxAppends
  /\ appending' = [appending EXCEPT ![proc] =
                     Some(appendMemory(appendCalls + Cardinality({q \in AppendProcs :
                                          ~IsNull(appending[q])}) + 1, proc))]
  /\ UNCHANGED <<narrative, appendCalls>>
  /\ AppendFrame

\* await Bun.write(path, appended): the file becomes what the call computed
AppendWrite(proc) ==
  /\ ~IsNull(appending[proc])
  /\ narrative' = Val(appending[proc])
  /\ appending' = [appending EXCEPT ![proc] = Null]
  /\ appendCalls' = appendCalls + 1
  /\ AppendFrame

AppendNext ==
  \/ \E proc \in AppendProcs : AppendRead(proc)
  \/ \E proc \in AppendProcs : AppendWrite(proc)

AppendSpec == Init /\ [][AppendNext]_vars

\* ------------------------------------------- the daemon and its tasks

\* the life of one daemon with the tasks it runs: start, ticks of the timer,
\* signals, exit, and a later start. The handler of a signal runs up to
\* process.exit without giving way, so the ticks take steps only while the
\* daemon is running
Running == daemonPc = "running"

RestartNext ==
  \/ StartDaemon
  \/ ConfigLoaded
  \/ InitDone
  \/ \E sig \in {"SIGTERM", "SIGINT"} : Signal(sig)
  \/ ShutdownStep
  \/ ProcessExit
  \/ Restart
  \/ (Running /\ TimerFires)
  \/ \E k \in DOMAIN inflight : (Running /\ MarkActive(k))
  \/ \E k \in DOMAIN inflight : (Running /\ AskReturns(k, RPlain))
  \/ \E k \in DOMAIN inflight : (Running /\ AskThrows(k))
  \/ \E k \in DOMAIN inflight : (Running /\ Complete(k))
  \/ \E k \in DOMAIN inflight : (Running /\ TickReturn(k))
  \/ TaskAdd(Null)

\* what goes on by itself: the daemon's own steps, the timer, the AI call that
\* ends one way or the other, and the restart; signals come or do not
RestartFair ==
  /\ WF_vars(StartDaemon)
  /\ WF_vars(ConfigLoaded)
  /\ WF_vars(InitDone)
  /\ WF_vars(ShutdownStep)
  /\ WF_vars(ProcessExit)
  /\ WF_vars(Restart)
  /\ WF_vars(Running /\ HeartbeatTick /\ intervals # {} /\ ~TickGuard)
  /\ WF_vars(\E k \in DOMAIN inflight : (Running /\ MarkActive(k)))
  /\ WF_vars(\E k \in DOMAIN inflight :
               (Running /\ (AskReturns(k, RPlain) \/ AskThrows(k))))
  /\ WF_vars(\E k \in DOMAIN inflight : (Running /\ Complete(k)))
  /\ WF_vars(\E k \in DOMAIN inflight : (Running /\ TickReturn(k)))

RestartSpec == Init /\ [][RestartNext]_vars /\ RestartFair

\* ------------------------------------------- scheduled tasks and the clock

\* tasks added with any of the schedules the CLI takes, the ticks that run
\* them, and the clock
ScheduleNext ==
  \/ HeartbeatTick
  \/ \E k \in DOMAIN inflight : MarkActive(k)
  \/ \E k \in DOMAIN inflight : AskReturns(k, RPlain)
  \/ \E k \in DOMAIN inflight : AskThrows(k)
  \/ \E k \in DOMAIN inflight : Complete(k)
  \/ \E k \in DOMAIN inflight : TickReturn(k)
  \/ \E scheduled_at \in AddSchedules : TaskAdd(scheduled_at)
  \/ Advance

\* the timer keeps firing, each step of a tick is taken, and time goes on
ScheduleFair ==
  /\ WF_vars(HeartbeatTick /\ ~TickGuard)
  /\ WF_vars(\E k \in DOMAIN inflight : MarkActive(k))
  /\ WF_vars(\E k \in DOMAIN inflight : (AskReturns(k, RPlain) \/ AskThrows(k)))
  /\ WF_vars(\E k \in DOMAIN inflight : Complete(k))
  /\ WF_vars(\E k \in DOMAIN inflight : TickReturn(k))
  /\ WF_vars(Advance)

ScheduleSpec == Init /\ [][ScheduleNext]_vars /\ ScheduleFair

\* ------------------------------------------- responses that report an error

\* the result objects the claude process prints: a text, and is_error absent,
\* false or true
ResultObjs ==
  {[result |-> r, is_error |-> e] :
     r \in {RPlain, RMemory}, e \in {Null, Some(FALSE), Some(TRUE)}}

\* the ticks of the daemon with every result object and every failure
ErrorNext ==
  \/ HeartbeatTick
  \/ \E k \in DOMAIN inflight : MarkActive(k)
  \/ \E k \in DOMAIN inflight : \E resultObj \in ResultObjs : AskResponds(k, resultObj)
  \/ \E k \in DOMAIN inflight : AskThrows(k)
  \/ \E k \in DOMAIN inflight : \E outcome \in {"ok", "db", "fs"} : StoreMemory(k, outcome)
  \/ \E k \in DOMAIN inflight : Complete(k)
  \/ \E k \in DOMAIN inflight : TickReturn(k)
  \/ TaskAdd(Null)

ErrorSpec == Init /\ [][ErrorNext]_vars

\* ------------------------------------------- two daemons started at once

AcquireFrame ==
  /\ UNCHANGED <<now, files, storeVars, outboxVars, parserVars, sessionVars, streamVars>>
  /\ UNCHANGED <<timedVars, displayVars, runtimeVars, appendVars, replAskVars, errorVars>>
  /\ UNCHANGED <<acquired, daemonPc, shuttingDown, daemonRunning, dbOpen, steps, signals>>

\* an earlier daemon ended without removePid(): the file holds its PID
LeftBehind ==
  /\ daemonPc = "off"
  /\ pidFile = Null
  /\ \A p \in OtherPids : acqPc[p] = "idle"
  /\ pidFile' = Some(SelfPid)
  /\ UNCHANGED <<alive, acquireVars>>
  /\ AcquireFrame

\* process p runs fryler start: startDaemon calls acquirePid()
AcquireCall(p) ==
  /\ p \in alive
  /\ acqPc[p] = "idle"
  /\ acqPc' = [acqPc EXCEPT ![p] = "read"]
  /\ UNCHANGED <<pidFile, alive, acqSeen, acqResult>>
  /\ AcquireFrame

\* const existingPid = readPid(); if (existingPid !== null) ...
AcquireRead(p) ==
  /\ p \in alive
  /\ acqPc[p] = "read"
  /\ acqSeen' = [acqSeen EXCEPT ![p] = readPid(pidFile)]
  /\ acqPc' = [acqPc EXCEPT ![p] = IF IsNull(readPid(pidFile)) THEN "write"
                                   ELSE "check"]
  /\ UNCHANGED <<pidFile, alive, acqResult>>
  /\ AcquireFrame

\* if (isRunning(existingPid)) return false
AcquireCheck(p) ==
  /\ p \in alive
  /\ acqPc[p] = "check"
  /\ IF isRunning(Val(acqSeen[p]), alive \cup DaemonLive)
     THEN /\ acqPc' = [acqPc EXCEPT ![p] = "done"]
          /\ acqResult' = [acqResult EXCEPT ![p] = Some(FALSE)]
     ELSE /\ acqPc' = [acqPc EXCEPT ![p] = "remove"]
          /\ acqResult' = acqResult
  /\ UNCHANGED <<pidFile, alive, acqSeen>>
  /\ AcquireFrame

\* removePid(): if (existsSync(pidPath)) unlinkSync(pidPath)
AcquireRemove(p) ==
  /\ p \in alive
  /\ acqPc[p] = "remove"
  /\ pidFile' = Null
  /\ acqPc' = [acqPc EXCEPT ![p] = "write"]
  /\ UNCHANGED <<alive, acqSeen, acqResult>>
  /\ AcquireFrame

\* writePid(); return true
AcquireWrite(p) ==
  /\ p \in alive
  /\ acqPc[p] = "write"
  /\ pidFile' = Some(p)
  /\ acqPc' = [acqPc EXCEPT ![p] = "done"]
  /\ acqResult' = [acqResult EXCEPT ![p] = Some(TRUE)]
  /\ UNCHANGED <<alive, acqSeen>>
  /\ AcquireFrame

\* two processes that run fryler start, each step of acquirePid a step of
\* its own; a process that has started stays
AcquireNext ==
  \/ \E p \in OtherPids : ProcStarts(p)
  \/ JunkPidFile
  \/ LeftBehind
  \/ \E p \in OtherPids : AcquireCall(p)
  \/ \E p \in OtherPids : AcquireRead(p)
  \/ \E p \in OtherPids : AcquireCheck(p)
  \/ \E p \in OtherPids : AcquireRemove(p)
  \/ \E p \in OtherPids : AcquireWrite(p)

AcquireSpec == Init /\ [][AcquireNext]_vars

\* ------------------------------------------------------------ properties

Terminal == {"completed", "failed"}

\* C1: within one daemon process at most one heartbeat tick is in flight, and
\* a heartbeatTick call made while one is in flight returns at once: it is
\* skipped, it starts no tick of its own and writes nothing.
C1_SingleTickInFlight ==
  /\ [](Len(inflight) <= 1 /\ (busy <=> Len(inflight) = 1))
  /\ [][returned' = <<"heartbeatTick", "skipped">>
          => /\ Len(inflight) = 1
             /\ UNCHANGED <<tasks, memories, narrative, files, inflight, busy>>]_vars

\* a call was skipped while the tick in flight awaited the AI
C1_Witness ==
  /\ returned = <<"heartbeatTick", "skipped">>
  /\ Len(inflight) = 1
  /\ inflight[1].pc = "ask"

\* the status changes of the task lifecycle
Lifecycle ==
  {<<"pending", "active">>, <<"active", "completed">>, <<"active", "failed">>,
   <<"pending", "failed">>}

\* C2: under every interleaving of ticks and cancelTask calls a task's status
\* changes only along pending->active, active->completed, active->failed and
\* pending->failed, and a completed or failed task's status and result are
\* never written again.
C2_LifecycleOnly ==
  [][\A id \in DOMAIN tasks :
       /\ tasks'[id].status # tasks[id].status
            => <<tasks[id].status, tasks'[id].status>> \in Lifecycle
       /\ tasks[id].status \in Terminal
            => /\ tasks'[id].status = tasks[id].status
               /\ tasks'[id].result = tasks[id].result]_vars

\* C3: in every reachable state a task's completed_at is set exactly when its
\* status is completed or failed.
C3_CompletedAtIffTerminal ==
  \A id \in DOMAIN tasks :
    ~IsNull(tasks[id].completed_at) <=> tasks[id].status \in Terminal

\* C4: in a tick with two or more due tasks every task the loop has passed is
\* completed or failed, one whose processing threw is failed with the error's
\* message as its result, and the tick returns only when the loop has passed
\* every due task.
C4_FailuresIsolated ==
  \A k \in DOMAIN inflight :
    LET t == inflight[k] IN
    Len(t.due) >= 2 =>
      \A j \in 1..Len(t.due) :
        j < t.i =>
          /\ hist[t.due[j]].done
          /\ tasks[t.due[j]].status \in Terminal
          /\ ~IsNull(hist[t.due[j]].thrown) =>
               /\ tasks[t.due[j]].status = "failed"
               /\ tasks[t.due[j]].result = hist[t.due[j]].thrown

\* the first of two due tasks threw, the second was still completed
C4_Witness ==
  \E k \in DOMAIN inflight :
    LET t == inflight[k] IN
    /\ Len(t.due) = 2
    /\ t.i > Len(t.due)
    /\ ~IsNull(hist[t.due[1]].thrown)
    /\ tasks[t.due[1]].status = "failed"
    /\ tasks[t.due[2]].status = "completed"

\* C5: under every interleaving of enqueues, watch notifications, settle-timer
\* firings and drains each enqueued action reaches the dispatch callback at
\* most once.
C5_DispatchedAtMostOnce ==
  \A n \in FileNames : dispatched[n] <= 1

\* C6: when processPendingActions is through with the files it listed, none of
\* them remains in the outbox, whether the dispatch returned, threw, or the
\* content was no JSON.
C6_ListedFilesDeleted ==
  \A d \in DOMAIN drains :
    \A j \in 1..Len(drains[d].files) :
      j < drains[d].i => files[drains[d].files[j]].st # "json"

\* a drain about to return whose files met a throwing dispatch and bad content
C6_Witness ==
  \E d \in DOMAIN drains :
    /\ drains[d].i > Len(drains[d].files)
    /\ Len(drains[d].files) >= 2
    /\ "throw" \in drains[d].log
    /\ "parse" \in drains[d].log

\* what exists on behalf of task id
MemoryRowsOf(id) == SelectSeq(memories, LAMBDA m : m.source = TaskSource(id))

NarrativeOf(id) == SelectSeq(narrative, LAMBDA e : e.src = id)

SubTasksOf(id) == {c \in DOMAIN tasks : hist[c].parent = id}

ActionsOf(id) == {n \in FileNames : files[n].st # "none" /\ files[n].src = id}

\* C7: a task whose AI invocation threw is failed, its result is the error's
\* message, and no memory row, narrative entry, sub-task or outbox action
\* exists on its behalf.
C7_AskFailureLeavesNothing ==
  \A id \in DOMAIN tasks :
    (~IsNull(hist[id].ai) /\ ~Val(hist[id].ai).ok) =>
      /\ tasks[id].status = "failed"
      /\ tasks[id].result = Some(Val(hist[id].ai).text)
      /\ MemoryRowsOf(id) = <<>>
      /\ NarrativeOf(id) = <<>>
      /\ SubTasksOf(id) = {}
      /\ ActionsOf(id) = {}

\* the tick is over, one task's AI invocation threw and another task's did not
C7_Witness ==
  /\ inflight = <<>>
  /\ \E id \in DOMAIN tasks :
       /\ ~IsNull(hist[id].ai) /\ ~Val(hist[id].ai).ok
       /\ tasks[id].result = Some(AskError)
  /\ \E id \in DOMAIN tasks : tasks[id].status = "completed"

\* what the parser makes of each response
Parsed == [R \in Responses |-> parseClaudeResponse(R)]

\* the state claim C8 speaks of, for task id answered with result text R
EffectsAsDirected(id, R) ==
  LET parsed == Parsed[R]
      rows   == MemoryRowsOf(id)
      subs   == SubTasksOf(id)
      acts   == ActionsOf(id)
  IN /\ tasks[id].status = "completed"
     /\ tasks[id].result = Some(parsed.cleanText)
     /\ Len(rows) = Len(parsed.memories)
     /\ \A j \in DOMAIN rows :
          /\ rows[j].category = parsed.memories[j].category
          /\ rows[j].content = parsed.memories[j].content
     /\ Cardinality(subs) = Len(parsed.tasks)
     /\ \A c \in subs : \E j \in DOMAIN parsed.tasks :
          /\ tasks[c].title = parsed.tasks[j].title
          /\ tasks[c].priority = parsed.tasks[j].priority
          /\ tasks[c].scheduled_at = parsed.tasks[j].scheduled_at
     /\ Cardinality(acts) = Len(parsed.says)
     /\ \A n \in acts : \E j \in DOMAIN parsed.says :
          /\ files[n].st = "json"
          /\ files[n].text = parsed.says[j].text
          /\ files[n].voice = parsed.says[j].voice

\* C8 as stated: once a task whose AI invocation succeeded with R has been
\* processed, it is completed with cleanText of R as its result, and there is
\* one memory row, one sub-task and one outbox action per valid directive.
C8_AsStated ==
  \A id \in DOMAIN tasks :
    (hist[id].done /\ ~IsNull(hist[id].ai) /\ Val(hist[id].ai).ok)
      => EffectsAsDirected(id, Val(hist[id].ai).text)

\* C8: once a task whose AI invocation succeeded with R and whose side effects
\* were all persisted without an error has been processed, it is completed
\* with cleanText of R as its result, and there is one memory row with source
\* task-<id>, one sub-task and one outbox action per valid directive.
C8_EffectsWhenNothingThrows ==
  \A id \in DOMAIN tasks :
    (hist[id].done /\ ~IsNull(hist[id].ai) /\ Val(hist[id].ai).ok
                   /\ IsNull(hist[id].thrown))
      => EffectsAsDirected(id, Val(hist[id].ai).text)

\* a task answered with a task, a say and an invalid memory directive is done
C8_Witness ==
  \E id \in DOMAIN tasks :
    /\ hist[id].done
    /\ hist[id].ai = Some([ok |-> TRUE, text |-> RMixed])
    /\ IsNull(hist[id].thrown)
    /\ SubTasksOf(id) # {}
    /\ ActionsOf(id) # {}
    /\ MemoryRowsOf(id) = <<>>

\* C9: cancelTask(id) returns true exactly when the task was pending at the
\* call, and then the task is failed with completed_at set; otherwise (active,
\* completed, failed, unknown id) it returns false and no field changes.
C9_CancelOnlyPending ==
  [][\A id \in 1..MaxTasks : \A changed \in BOOLEAN :
       returned' = <<"cancelTask", id, changed>> =>
         /\ changed <=> (id \in DOMAIN tasks /\ tasks[id].status = "pending")
         /\ changed =>
              /\ tasks'[id].status = "failed"
              /\ ~IsNull(tasks'[id].completed_at)
              /\ tasks' = [tasks EXCEPT ![id].status = tasks'[id].status,
                                        ![id].completed_at = tasks'[id].completed_at]
         /\ ~changed => tasks' = tasks]_vars

\* a cancel of a pending task has just returned true
C9_Witness ==
  \E id \in DOMAIN tasks :
    /\ returned = <<"cancelTask", id, TRUE>>
    /\ tasks[id].status = "failed"
    /\ ~IsNull(tasks[id].completed_at)

\* the pending tasks whose scheduled time is absent or not later than now
DueNow ==
  {id \in DOMAIN tasks :
     /\ tasks[id].status = "pending"
     /\ \/ tasks[id].scheduled_at = Null
        \/ \E n \in 0..now : Datetime(Val(tasks[id].scheduled_at)) = Some(n)}

\* C10: the due query a tick starts with returns exactly the pending tasks
\* whose scheduled time is absent or not later than the store's current time,
\* each once.
C10_DueQueryExact ==
  [][Len(inflight') > Len(inflight) =>
       LET due == inflight'[Len(inflight')].due IN
       /\ Range(due) = DueNow
       /\ Len(due) = Cardinality(DueNow)]_vars

\* a tick took the second task and left the first, pending and scheduled later
C10_Witness ==
  /\ now = 0
  /\ Len(tasks) = 2
  /\ tasks[1].status = "pending"
  /\ tasks[1].scheduled_at = Some("T1")
  /\ Len(inflight) = 1
  /\ inflight[1].due = <<2>>
  /\ inflight[1].pc = "loop"
  /\ inflight[1].i = 1

\* C11: within one tick the due tasks are processed one after another: a task
\* of the tick is active only while it is the one being processed, every task
\* the loop has passed is completed or failed, and so none of the tick's tasks
\* is active when the tick returns.
C11_OneTaskAtATime ==
  \A k \in DOMAIN inflight :
    LET t == inflight[k] IN
    \A j \in 1..Len(t.due) :
      /\ tasks[t.due[j]].status = "active" => (j = t.i /\ t.pc \in {"ask", "apply"})
      /\ j < t.i => tasks[t.due[j]].status \in Terminal

\* the second of two due tasks is active, the first one is done
C11_Witness ==
  \E k \in DOMAIN inflight :
    LET t == inflight[k] IN
    /\ Len(t.due) = 2
    /\ t.i = 2
    /\ t.pc = "ask"
    /\ tasks[t.due[1]].status \in Terminal
    /\ tasks[t.due[2]].status = "active"

\* a heartbeatTick call has ended in this step, by returning or by throwing
TickEnds ==
  \/ Len(inflight') < Len(inflight)
  \/ /\ returned' = <<"heartbeatTick", "threw">>
     /\ returned # <<"heartbeatTick", "threw">>

C13_AskedOncePendingOnly ==
  /\ [](\A id \in DOMAIN tasks : hist[id].asked <= 1)
  /\ [][\A id \in DOMAIN tasks :
          hist'[id].asked > hist[id].asked => tasks[id].status = "pending"]_vars

\* the step is one of a tick, not a cancelTask call of the CLI
TickStep == returned' = <<>> \/ returned'[1] # "cancelTask"

\* C14: a step of a tick changes no field of a task that the tick's due query
\* did not return (a task pending with a later scheduled time, or one that
\* was active, completed or failed when the tick started): the only row a
\* step of a tick writes is the row of the snapshot the loop is at
C14_OnlySnapshotRowsChange ==
  [][TickStep =>
       \A id \in DOMAIN tasks :
         tasks'[id] # tasks[id] =>
           \E k \in DOMAIN inflight :
             LET t == inflight[k] IN
             t.i <= Len(t.due) /\ id = t.due[t.i]]_vars

\* a tick has completed the one task of its snapshot; the task added before
\* it, scheduled for T1, is the row that TaskAdd wrote
C14_Witness ==
  \E k \in DOMAIN inflight :
    LET t == inflight[k] IN
    /\ t.due = <<2>>
    /\ t.i = 2
    /\ tasks[2].status = "completed"
    /\ tasks[1] = createTask([title |-> "Cli", priority |-> "3",
                              scheduled_at |-> Some("T1")])

\* C15: a drain goes through its files in the order of their names, and that
\* order is the order in which the actions were enqueued: of two files of a
\* drain's list, the one listed first has the smaller name and was made by
\* the earlier writeAction call
C15_NameOrderIsEnqueueOrder ==
  \A d \in DOMAIN drains :
    LET r == drains[d] IN
    \A j1, j2 \in DOMAIN r.files :
      j1 < j2 =>
        /\ NameBefore(r.files[j1], r.files[j2])
        /\ (files[r.files[j1]].seq > 0 /\ files[r.files[j2]].seq > 0)
             => files[r.files[j1]].seq < files[r.files[j2]].seq

\* the file was made by writeAction: it carries the text of an action
ByWriteAction(f) == f.text # ""

\* C16: while writeAction runs next to a drain, a file made by writeAction is
\* under a .json name only with its full content, no drain has a .tmp file in
\* its list, a .tmp file leaves the directory only by the rename that ends
\* the enqueue, and what a drain dispatches or deletes is no partly written
\* action
C16_NoPartialActionSeen ==
  /\ [](/\ \A n \in FileNames :
             (files[n].st = "json" /\ ByWriteAction(files[n])) => files[n].good
        /\ \A d \in DOMAIN drains : \A j \in DOMAIN drains[d].files :
             files[drains[d].files[j]].st # "tmp")
  /\ [][\A n \in FileNames :
          /\ (files[n].st = "tmp" /\ files'[n].st # "tmp")
               => (files'[n].st = "json" /\ files'[n].good)
          /\ dispatched'[n] > dispatched[n]
               => (files[n].st = "json" /\ files[n].good)
          /\ (files'[n].st = "gone" /\ files[n].st # "gone")
               => /\ files[n].st = "json"
                  /\ ByWriteAction(files[n]) => files[n].good]_vars

\* a drain has dispatched the file it listed while a second writeAction is
\* between Bun.write and the rename
C16_Witness ==
  \E d \in DOMAIN drains : \E n \in FileNames :
    /\ files[n].st = "tmp"
    /\ ~files[n].good
    /\ n \notin Range(drains[d].files)
    /\ drains[d].pc = "dispatch"
    /\ dispatched[drains[d].files[drains[d].i]] = 1

\* the text holds no marker of any kind
NoMarker(text) ==
  /\ extractMarkers(text, "TASK:") = <<>>
  /\ extractMarkers(text, "MEMORY:") = <<>>
  /\ extractMarkers(text, "SAY:") = <<>>

NoDirectives(r) == r.tasks = <<>> /\ r.memories = <<>> /\ r.says = <<>>

\* the indexes of text that hold neither a blank before the first or after
\* the last token that is no blank, nor a line end that follows two line ends
KeptIndexes(text) ==
  {i \in DOMAIN text :
     /\ \E j \in 1..i : text[j] \notin WS
     /\ \E j \in i..Len(text) : text[j] \notin WS
     /\ ~(i >= 3 /\ text[i] = "nl" /\ text[i - 1] = "nl" /\ text[i - 2] = "nl")}

RECURSIVE PickFrom(_, _)
PickFrom(text, i) ==
  IF i > Len(text) THEN <<>>
  ELSE (IF i \in KeptIndexes(text) THEN <<text[i]>> ELSE <<>>) \o PickFrom(text, i + 1)

\* the text has no blank at either end and no run of three line ends
Tidy(text) == KeptIndexes(text) = DOMAIN text

C18_StrippingIdempotent ==
  ~IsNull(parseAgain) =>
     /\ Val(parseAgain).cleanText = Val(parseOut).cleanText
     /\ NoDirectives(Val(parseAgain))

\* the task markers of text whose JSON parses and that carry a title
TitledMarkers(text) ==
  SelectSeq(extractMarkers(text, "TASK:"),
            LAMBDA m : /\ ~IsNull(JSONparse(m.json))
                       /\ Field(Val(JSONparse(m.json)), "title").t = "string"
                       /\ ~Blank(Field(Val(JSONparse(m.json)), "title").s))

\* the numerals of the integers 1 to 5
PriorityNumerals == {"1", "2", "3", "4", "5"}

\* C19: every task directive returned has an integer priority in 1..5: the
\* priority given when that is an integer from 1 to 5, and 3 for any other
\* value (none, no number, below 1, above 5, no integer)
C19_PriorityIntegerOrDefault ==
  ~IsNull(parseOut) =>
     LET given == TitledMarkers(parseIn)
         out   == Val(parseOut).tasks
     IN /\ Len(out) = Len(given)
        /\ \A i \in DOMAIN out :
             LET prio == Field(Val(JSONparse(given[i].json)), "priority") IN
             /\ out[i].priority \in PriorityNumerals
             /\ out[i].priority =
                  IF prio.t = "number" /\ prio.s \in PriorityNumerals
                  THEN prio.s ELSE "3"

\* the markers of text of one kind whose JSON parses and that carry every
\* required field of the kind
ValidMarkers(text, kw, required) ==
  SelectSeq(extractMarkers(text, kw),
            LAMBDA m : /\ ~IsNull(JSONparse(m.json))
                       /\ \A key \in required :
                            /\ Field(Val(JSONparse(m.json)), key).t = "string"
                            /\ ~Blank(Field(Val(JSONparse(m.json)), key).s))

\* every marker of the text, of the three kinds
AllMarkers(text) ==
  extractMarkers(text, "TASK:") \o extractMarkers(text, "MEMORY:")
    \o extractMarkers(text, "SAY:")

RECURSIVE SpanFrom(_, _, _)
\* the indexes of text that the matches of one kind's pattern cover
SpanFrom(text, i, kw) ==
  IF i > Len(text) THEN {}
  ELSE LET m == MatchAt(text, i, kw) IN
       IF IsNull(m) THEN SpanFrom(text, i + 1, kw)
       ELSE (Val(m).from .. Val(m).to) \cup SpanFrom(text, Val(m).to + 1, kw)

\* the indexes of text that lie in a marker of any kind
InMarker(text) ==
  SpanFrom(text, 1, "TASK:") \cup SpanFrom(text, 1, "MEMORY:")
    \cup SpanFrom(text, 1, "SAY:")

RECURSIVE Outside(_, _)
\* text without the tokens that lie in a marker
Outside(text, i) ==
  IF i > Len(text) THEN <<>>
  ELSE (IF i \in InMarker(text) THEN <<>> ELSE <<text[i]>>) \o Outside(text, i + 1)

\* the text has a marker with broken JSON or without a required field
HasInvalidMarker(text) ==
  Len(AllMarkers(text)) >
    Len(ValidMarkers(text, "TASK:", {"title"}))
      + Len(ValidMarkers(text, "MEMORY:", {"category", "content"}))
      + Len(ValidMarkers(text, "SAY:", {"text"}))

\* C20: in a text with a marker that has broken JSON or lacks a required
\* field, that marker is in none of the lists, every valid marker is in its
\* list, and cleanText is the text without the tokens of its markers, valid
\* or not (blanks at the ends and third line ends dropped)
C20_InvalidDroppedAllStripped ==
  (~IsNull(parseOut) /\ HasInvalidMarker(parseIn)) =>
     LET r == Val(parseOut) IN
     /\ Len(r.tasks) = Len(ValidMarkers(parseIn, "TASK:", {"title"}))
     /\ Len(r.memories) = Len(ValidMarkers(parseIn, "MEMORY:", {"category", "content"}))
     /\ Len(r.says) = Len(ValidMarkers(parseIn, "SAY:", {"text"}))
     /\ r.cleanText = PickFrom(Outside(parseIn, 1), 1)

\* the rows of the sessions table that carry the identifier
RowsOf(tbl, id) == {i \in DOMAIN tbl : tbl[i].claude_session_id = id}

\* C21: createSession for an identifier that has a stored row raises no error
\* and leaves exactly one row for the identifier
C21_CreateStoredNoError ==
  [][\A id \in SessionIds :
       (/\ turn' = Some([cmd |-> "createSession", S |-> Some(id), threw |-> turn'[1].threw])
        /\ turn' # turn
        /\ UniqueFails(id))
       => (~turn'[1].threw /\ Cardinality(RowsOf(sessions', id)) = 1)]_vars

\* C22: the message_count of a stored session never decreases, whatever the
\* turns, also the turns of a REPL that was started later and resumed the
\* session
C22_MessageCountMonotonic ==
  [][\A i \in DOMAIN sessions :
       sessions'[i].message_count >= sessions[i].message_count]_vars

\* C23: after a one-shot ask or a REPL turn whose response carries the session
\* identifier S the store has a row for S, and that row's last_active_at is
\* the time of the turn
C23_ResponseSessionStored ==
  (/\ ~IsNull(turn)
   /\ turn[1].cmd \in {"ask", "repl"}
   /\ ~IsNull(turn[1].S))
  => \E i \in DOMAIN sessions :
       /\ sessions[i].claude_session_id = Val(turn[1].S)
       /\ sessions[i].last_active_at = now

\* C24: a step of a heartbeat tick leaves the sessions table as it is, and
\* every claude invocation made for a task carries --no-session-persistence
\* and neither --continue nor --session-id
C24_TickOutsideSessions ==
  /\ [](\A id \in DOMAIN tasks :
          hist[id].asked > 0 =>
            /\ "--no-session-persistence" \in Range(hist[id].args)
            /\ "--continue" \notin Range(hist[id].args)
            /\ "--session-id" \notin Range(hist[id].args))
  /\ [][(inflight' # inflight \/ tasks' # tasks \/ busy' # busy \/ hist' # hist)
          => sessions' = sessions]_vars

\* a tick has completed a task while the sessions table holds the row of a
\* one-shot ask
C24_Witness ==
  /\ sessions # <<>>
  /\ \E id \in DOMAIN tasks :
       /\ tasks[id].status = "completed"
       /\ hist[id].asked = 1
       /\ hist[id].args = <<"--no-session-persistence">>

\* the events of the lines of text that parse, in the order of the text
ParseableEvents(text) ==
  LET lines == SplitNl(text, <<>>)
      good == SelectSeq(lines, LAMBDA line : Parses(Trim(line)))
  IN [i \in 1..Len(good) |-> Trim(good[i])[2]]

\* C25: in streaming mode the failure of a subprocess that exits with a code
\* other than 0 carries the text of its standard error and is raised only when
\* every line the subprocess wrote that parses has been yielded, in the order
\* written; a line that does not parse is skipped and does not end the sequence
\* (so what was yielded is never more than a prefix of those events, and is all
\* of them once askStreaming has returned or thrown).
C25_FailureAfterAllEvents ==
  /\ Len(yielded) <= Len(ParseableEvents(emitted))
  /\ yielded = SubSeq(ParseableEvents(emitted), 1, Len(yielded))
  /\ streamPc \in {"exiting", "returned", "threw"} => yielded = ParseableEvents(emitted)
  /\ ~IsNull(raised) <=> (streamPc = "threw")
  /\ streamPc = "threw" =>
       /\ exit.code # 0
       /\ raised = Some(<<"claude exited with code", exit.code, exit.stderr>>)
  /\ streamPc = "returned" => exit.code = 0

\* the subprocess wrote an event, a line that is no JSON and a second event,
\* exited with code 1, and askStreaming threw after yielding both events
C25_Witness ==
  /\ streamPc = "threw"
  /\ emitted = <<"{", "1", "}", "nl", "{", "1", "nl", "{", "2", "}">>
  /\ exit.stderr = "boom"
  /\ yielded = <<"1", "2">>

\* the times of the calls of the watch callback for a .json name that no later
\* such call follows within the settle delay: the last one of each burst
BurstEnds ==
  {notes[i].at : i \in {i \in DOMAIN notes :
      /\ notes[i].json
      /\ \A j \in DOMAIN notes :
           (j > i /\ notes[j].json) => notes[j].at >= notes[i].at + SettleDelay}}

\* C26: .json change notifications that each arrive within the settle delay of
\* the previous one start exactly one drain, one settle delay after the last
\* of them; a notification for a name that does not end in .json starts no
\* drain and does not reset the delay (the drains started are exactly those due
\* one settle delay after the last notification of a burst, each once, and the
\* armed timeout is the one of the last .json notification).
C26_OneDrainPerBurst ==
  /\ \A k \in DOMAIN started : \E t \in BurstEnds : started[k] = t + SettleDelay
  /\ \A k \in DOMAIN started : \A l \in DOMAIN started : k < l => started[k] < started[l]
  /\ \A t \in BurstEnds :
       \/ \E k \in DOMAIN started : started[k] = t + SettleDelay
       \/ (t + SettleDelay >= clock /\ deadline = Some(t + SettleDelay))
  /\ ~IsNull(deadline) => deadline[1] - SettleDelay \in BurstEnds

\* two .json notifications 25 ms apart, then one for a .tmp name 25 ms later:
\* the only drain started 50 ms after the second .json notification
C26_Witness ==
  /\ notes = <<[at |-> 0, json |-> TRUE], [at |-> 25, json |-> TRUE],
               [at |-> 50, json |-> FALSE]>>
  /\ started = <<75>>
  /\ clock = 100

\* C27: the text shown to the user by the REPL or by the one-shot ask holds no
\* raw marker, also while the response is displayed as it streams.
C27_NoRawMarkerShown == NoMarker(shown)

\* C29: at most one heartbeat timer exists at any time: startHeartbeat while a
\* timer is running changes nothing, stopHeartbeat without a timer changes
\* nothing, and isHeartbeatRunning is true exactly between a startHeartbeat and
\* the next stopHeartbeat (it tells whether an interval is live, becomes true
\* only by startHeartbeat and false only by stopHeartbeat).
C29_OneTimerLifecycle ==
  /\ [](Cardinality(intervals) <= 1)
  /\ [](isHeartbeatRunning <=> intervals # {})
  /\ [][(startHeartbeat /\ intervals # {}) => (intervals' = intervals /\ intervalId' = intervalId)]_vars
  /\ [][(stopHeartbeat /\ intervals = {}) => (intervals' = intervals /\ intervalId' = intervalId)]_vars
  /\ [][(startHeartbeat /\ intervals = {}) => (isHeartbeatRunning' /\ Cardinality(intervals') = 1)]_vars
  /\ [][(stopHeartbeat /\ intervals # {}) => (~isHeartbeatRunning' /\ intervals' = {})]_vars
  /\ [][(isHeartbeatRunning' # isHeartbeatRunning) => (startHeartbeat \/ stopHeartbeat)]_vars

\* startHeartbeat has made the one interval, which has fired a tick that is
\* still in flight
C29_Witness ==
  /\ isHeartbeatRunning
  /\ intervals = {1}
  /\ inflight # <<>>
  /\ returned = <<>>
  /\ busy

\* C28: acquirePid returns true and leaves the PID file holding the caller's
\* PID whenever no other live process owns the PID file (the file is absent,
\* holds the PID of a dead process, or holds the caller's own PID); it returns
\* false only when a different live process owns it.
C28_AcquireUnlessOtherOwner ==
  [][(daemonPc = "off" /\ daemonPc' # "off") =>
       IF \E p \in alive : pidFile = Some(p)
       THEN acquired' = Some(FALSE)
       ELSE acquired' = Some(TRUE) /\ pidFile' = Some(SelfPid)]_vars

\* the shutdown steps of a process in the order of the claim, and the exit
\* without them
ShutdownRuns ==
  {SubSeq(<<"stopHeartbeat", "closeDb", "removePid", "exit">>, 1, n) : n \in 0..4}
    \cup {<<"exit">>}

\* a tick starts: heartbeatTick is entered
TickStarts ==
  \/ Len(inflight') > Len(inflight)
  \/ /\ returned' # returned
     /\ returned' \in {<<"heartbeatTick", "skipped">>, <<"heartbeatTick", "threw">>}

\* C30: when SIGTERM and SIGINT arrive in any number and order, the shutdown
\* sequence runs at most once, within it the heartbeat timer is stopped before
\* the store is closed and the store is closed before the PID file is removed
\* and the process exits, and no tick starts after the timer was stopped.
C30_ShutdownOnceInOrder ==
  /\ [](steps \in ShutdownRuns)
  /\ []((\E i \in DOMAIN steps : steps[i] = "closeDb") => intervals = {})
  /\ []((\E i \in DOMAIN steps : steps[i] = "removePid") => ~dbOpen)
  /\ [][(\E i \in DOMAIN steps : steps[i] = "stopHeartbeat") => ~TickStarts]_vars

\* SIGINT and then SIGTERM arrived; the shutdown ran once, to its end, and the
\* process is gone
C30_Witness ==
  /\ signals = <<"SIGINT", "SIGTERM">>
  /\ steps = <<"stopHeartbeat", "closeDb", "removePid", "exit">>
  /\ daemonPc = "exited"
  /\ IsNull(pidFile)

\* the error thrown while a side effect of task id was persisted, Null if none
EffectError(h, id) ==
  IF ~IsNull(h[id].ai) /\ Val(h[id].ai).ok THEN h[id].thrown ELSE Null

IsPrefix(s, t) == Len(s) <= Len(t) /\ s = SubSeq(t, 1, Len(s))

\* C31: if persisting a side effect of a task throws, the task ends failed with
\* that error's message, the side effects persisted for it before stay as they
\* are, and no other side effect of it is applied afterwards.
C31_PartialEffectsNoRollback ==
  /\ [](\A id \in DOMAIN tasks :
          ~IsNull(EffectError(hist, id)) =>
             /\ tasks[id].status = "failed"
             /\ tasks[id].result = EffectError(hist, id))
  /\ [][\A id \in DOMAIN tasks :
          (IsNull(EffectError(hist, id)) /\ ~IsNull(EffectError(hist', id))) =>
             /\ IsPrefix(MemoryRowsOf(id), MemoryRowsOf(id)')
             /\ Len(MemoryRowsOf(id)') <= Len(MemoryRowsOf(id)) + 1
             /\ NarrativeOf(id)' = NarrativeOf(id)
             /\ SubTasksOf(id)' = SubTasksOf(id)
             /\ ActionsOf(id)' = ActionsOf(id)
             /\ \A n \in ActionsOf(id) : files'[n] = files[n]]_vars
  /\ [][\A id \in DOMAIN tasks :
          ~IsNull(EffectError(hist, id)) =>
             /\ MemoryRowsOf(id)' = MemoryRowsOf(id)
             /\ NarrativeOf(id)' = NarrativeOf(id)
             /\ SubTasksOf(id)' = SubTasksOf(id)
             /\ ActionsOf(id)' = ActionsOf(id)]_vars

\* the narrative entry of a task's memory could not be written: the
\* task is failed with the file system's message, its memory row is stored
\* and no narrative entry, sub-task or outbox action exists for it
C31_Witness ==
  \E id \in DOMAIN tasks :
    /\ EffectError(hist, id) = Some(FsError)
    /\ tasks[id].status = "failed"
    /\ tasks[id].result = Some(FsError)
    /\ Len(MemoryRowsOf(id)) = 1
    /\ NarrativeOf(id) = <<>>
    /\ inflight = <<>>

\* the ids of the tasks a tick runs over
DueIds(t) == {t.due[j] : j \in DOMAIN t.due}

\* C32: a task created from a task directive while a tick is running is never
\* executed in that tick, also when it has no scheduled time: it is not among
\* the tasks the tick of its parent runs over, and the tick that invokes the AI
\* for it is another one.
C32_SubTaskWaitsForLaterTick ==
  /\ [](\A k \in DOMAIN inflight : \A c \in DOMAIN tasks :
          (hist[c].parent # 0 /\ hist[c].parent \in DueIds(inflight[k]))
             => c \notin DueIds(inflight[k]))
  /\ [][\A c \in DOMAIN tasks :
          (c \in DOMAIN hist /\ hist[c].parent # 0 /\ hist'[c].asked > hist[c].asked) =>
             \E k \in DOMAIN inflight :
                /\ inflight[k].pc = "loop"
                /\ inflight[k].i <= Len(inflight[k].due)
                /\ inflight[k].due[inflight[k].i] = c
                /\ hist[c].parent \notin DueIds(inflight[k])]_vars

\* a task made by a directive without a scheduled time was run by a tick
\* after the one that made it
C32_Witness ==
  \E c \in DOMAIN tasks :
    /\ hist[c].parent # 0
    /\ IsNull(tasks[c].scheduled_at)
    /\ hist[c].asked = 1
    /\ tasks[hist[c].parent].status = "completed"

\* C33: appendMemory only appends: after any set of calls, also calls of the
\* daemon's tick and of a CLI or REPL process that overlap in time, the
\* narrative holds its previous content unchanged followed by one entry for
\* every call; no entry is lost or overwritten.
C33_AppendOnly ==
  /\ [](Len(narrative) = appendCalls)
  /\ [][IsPrefix(narrative, narrative')]_vars

\* C34: the first prompt after /new is sent as a fresh conversation, with
\* neither --continue nor a session id, also when the REPL was started with
\* auto-resume or with an explicit session id.
C34_NewStartsFresh ==
  (~IsNull(sent) /\ Val(sent).afterNew) => Val(sent).args = <<>>

\* C35: every task that becomes active eventually becomes completed or failed,
\* also when the daemon receives a shutdown signal while the task's AI
\* invocation is in flight and is started again later.
C35_ActiveEventuallyEnds ==
  \A id \in 1..MaxTasks :
    (id \in DOMAIN tasks /\ tasks[id].status = "active")
      ~> (id \in DOMAIN tasks /\ tasks[id].status \in Terminal)

\* C36: every task created with a scheduled_at value that was accepted
\* eventually becomes due, under repeated ticks and advancing time, whatever
\* string was accepted (also one that is no timestamp).
C36_ScheduledEventuallyDue ==
  \A id \in 1..MaxTasks :
    (id \in DOMAIN tasks /\ ~IsNull(tasks[id].scheduled_at))
      ~> (id \in DOMAIN tasks
          /\ (DueRow(tasks[id]) \/ tasks[id].status # "pending"))

\* C37: a task whose AI response carries is_error = true does not end in
\* status completed.
C37_ErrorNeverCompleted ==
  \A id \in DOMAIN tasks :
    id \in errored => tasks[id].status # "completed"

\* C38: when two live processes call acquirePid concurrently, under every
\* interleaving of their read, liveness-check, remove and write steps, at
\* most one of them gets true.
C38_AtMostOneAcquires ==
  Cardinality({p \in OtherPids : p \in alive /\ acqResult[p] = Some(TRUE)}) <= 1

\* C39: when startDaemon has acquired the PID file and the process then exits
\* through the startup-failure path or through a shutdown signal received at
\* any point after the acquisition, the PID file it wrote has been removed
\* before the process exits.
C39_PidFileRemovedAtExit ==
  (daemonPc = "exited" /\ acquired = Some(TRUE)) => pidFile # Some(SelfPid)

====
